---- MODULE Spec2Model ----
(***************************************************************************)
(* ilp-protocol-stream: the STREAM connection (sender and receiver money   *)
(* accounting, the single send loop, sequence numbers, receipts), the      *)
(* packet and frame codec of src/protocol.ts and the encryption envelope   *)
(* of the crypto helper.                                                    *)
(***************************************************************************)
EXTENDS Integers, Sequences, FiniteSets, TLC

\* ------------------------------------------------------------------ bounds
\* Largest amount given to setSendMax / setReceiveMax and carried by a Prepare.
MaxAmount == 2
\* Stands for the sequence limit 2^64 - 1: no packet is sent once
\* next_packet_sequence reaches it.
MaxSequence == 3
\* Largest shares value of a StreamMoney frame of an incoming Prepare.
MaxShares == 2
\* Largest unsigned integer of the codec's inputs; stands for 2^64 - 1.
MaxUInt == 2147483646
\* Largest number of frames of a packet given to the codec.
MaxFrames == 2
\* Largest number of buffers given to one encrypt call.
MaxBuffers == 2
\* Largest number of times the receiver computes the fulfillment of a Prepare.
MaxFulfills == 2
\* Largest number of bytes a stream wrote, and of chunks pushed to its sorter.
MaxLength == 3
MaxPushes == 3
\* Largest number of acceptConnection() calls, of connections announced, and
\* of listen(), close() and acceptConnection() calls of a server together.
MaxAccepts == 1
MaxConnections == 2
MaxCalls == 2
\* Largest number of generateAddressAndSecret() calls and of Prepares handled.
MaxGenerates == 2
MaxPrepares == 2

\* Client-initiated streams have odd ids; the list is in ascending id order.
StreamOrder == <<1, 3>>
Streams == {StreamOrder[i] : i \in 1..Len(StreamOrder)}

VARIABLES
    \* ---- sending side of the connection
    sendMax,             \* stream -> send_max
    totalSent,           \* stream -> total_sent
    holds,               \* stream -> amount held for the Prepare awaited
    nextPacketSequence,  \* next_packet_sequence
    awaiting,            \* sequence of the Prepare the send loop awaits, 0 if none
    network,             \* Prepares handed to the plugin and not yet answered
    connState,           \* "open", "closing", "closeSent", "closed"
    sentLog,             \* sequence numbers of the Prepares sent, in order
    outData,             \* TRUE when written bytes wait to be sent
    receipt,             \* stream -> totalReceived of the latest receipt, -1 if none
    receiptPrev,         \* stream -> totalReceived of the receipt before, -1 if none
    \* ---- receiving side of the connection
    receiveMax,          \* stream -> receive_max
    totalReceived,       \* stream -> total_received
    lastReply,           \* outcome of the last Prepare handled
    \* ---- the packet codec
    packet,              \* the Packet object given to the codec
    wire,                \* its serialized bytes
    decoded,             \* what deserializing the bytes returned
    inserted,            \* the foreign frame a peer put among the frames
    codecStep,           \* "idle", "new", "serialized", "spliced", "decoded"
    \* ---- the encryption envelope
    cryptoApi,           \* "memo" (keys cached per secret), "plain" (key passed in)
    secretBytes,         \* the bytes of the shared secret
    plainBuffers,        \* the buffers given to encrypt
    pskKeyMap,           \* Buffer object -> encryption key derived for it
    sealed,              \* what encrypt returned
    opened,              \* what decrypt returned, or that it threw
    cryptoStep,          \* "idle", "new", "sealed", "opened"
    \* ---- a sealed packet on its way to decryptAndDeserialize
    authSecret,          \* the bytes of the secret the blob was encrypted under
    authPlain,           \* the bytes that were encrypted
    authSent,            \* what encrypt returned
    authReceived,        \* the blob given to decryptAndDeserialize
    authAltered,         \* "none", "key", "iv", "tag", "ciphertext", "short"
    authOpenSecret,      \* the bytes of the secret given to decryptAndDeserialize
    authOpened,          \* what decrypt returned, or that it threw
    authPacket,          \* what decryptAndDeserialize returned, or that it threw
    authStep,            \* "idle", "new", "sealed", "altered", "opened"
    \* ---- condition and fulfillment of one Prepare
    fulfillSecret,       \* the bytes of the sender's shared secret
    fulfillData,         \* the ciphertext the sender put in the Prepare
    fulfillCondition,    \* the execution condition the sender put in the Prepare
    fulfillOpenSecret,   \* the bytes of the receiver's shared secret
    fulfillReceived,     \* the Prepare data the receiver got
    fulfillments,        \* the fulfillments the receiver computed, in order
    fulfillmentKeyMap,   \* Buffer object -> fulfillment key derived for it
    fulfillStep,         \* "idle", "new", "prepared", "received", "fulfilled"
    \* ---- the OffsetSorter of a stream's incoming data
    head,                \* the linked list of entries, from its head
    readOffset,          \* OffsetSorter.readOffset
    maxOffset,           \* OffsetSorter.maxOffset
    endOffset,           \* OffsetSorter.endOffset
    original,            \* the bytes the sending stream wrote
    pushLog,             \* the chunks pushed, in order, and whether push threw
    readLog,             \* the chunks read() returned, in order
    lastRead,            \* "none", "data" or "undefined": what the last read() returned
    \* ---- a receipt
    receiptOpts,         \* the ReceiptOpts given to createReceipt
    created,             \* what createReceipt returned, or the error it threw
    presented,           \* the buffer given to verifyReceipt / decodeReceipt
    verifySecret,        \* the secret given to verifyReceipt
    verified,            \* what verifyReceipt returned
    decodedReceipt,      \* what decodeReceipt returned, or the error it threw
    receiptStep,         \* "idle", "new", "created", "changed", "foreign",
                         \* "verified", "decoded"
    \* ---- the server
    serverConnected,     \* Server.connected
    pluginConnected,     \* plugin.isConnected()
    dataHandler,         \* TRUE while the plugin has the server's data handler
    serverAccount,       \* Server.serverAccount, the text "undefined" until set
    pool,                \* Server.pool: the pools built, the active
                         \* connections and the closed ids of the latest
    listening,           \* caller -> where its listen() is: "none",
                         \* "connecting", "fetching", "returned"
    accepts,             \* acceptConnection() call -> "idle", "listening",
                         \* "waiting", "resolved", "rejected" and its result
    listeners,           \* event -> the done callbacks registered for it
    announced,           \* the connections 'connection' was emitted for
    issued,              \* what generateAddressAndSecret returned, in order
    generated,           \* the generateAddressAndSecret call just settled, if
                         \* any
    served,              \* the Prepare just answered and its answer, if any
    generating,          \* the generateAddressAndSecret call that awaits its
                         \* secret, if any
    handling,            \* the Prepare handleData awaits the pool or the
                         \* connection for, if any
    closePc,             \* close(): "none", "ending", "disconnecting",
                         \* "resolved", "threw"
    closeSnapshot,       \* the connections the pool's close() asked to end
    disconnectCalls,     \* plugin.disconnect() calls of the last close()
    closeTrace,          \* what the last close() did, in order
    closedTokens,        \* ids of all connections that ended
    lifecycle,           \* "new", "up" (listen() completed), "down"
                         \* (close() completed)
    calls,               \* calls made so far: of listen() and close(), of
                         \* generateAddressAndSecret(), and Prepares handled
    \* ---- the memoizing crypto helper
    sharedSecretMap,     \* Buffer object of a token -> shared secret derived
    derivation,          \* the derivation just made: its inputs and result
    \* ---- padding
    padding              \* the padPacketToSize given to serializeAndEncrypt

connVars == <<sendMax, totalSent, holds, nextPacketSequence, awaiting, network,
              connState, sentLog, outData, receipt, receiptPrev>>
recvVars == <<receiveMax, totalReceived, lastReply>>

\* ----------------------------------------------------------------- helpers
Min(a, b) == IF a < b THEN a ELSE b
Max(a, b) == IF a > b THEN a ELSE b

RECURSIVE SumSeq(_)
SumSeq(s) == IF s = <<>> THEN 0 ELSE Head(s) + SumSeq(Tail(s))

RECURSIVE SumOver(_, _)
SumOver(f, S) ==
    IF S = {} THEN 0
    ELSE LET x == CHOOSE y \in S : TRUE IN f[x] + SumOver(f, S \ {x})

ZeroPerStream == [s \in Streams |-> 0]

\* ------------------------------------------------- receiver: handlePrepare
\* Sum of the shares of the StreamMoney frames of a Prepare.
TotalShares(frames) == SumSeq([i \in 1..Len(frames) |-> frames[i].shares])

\* floor(prepare.amount * shares / sum of shares)
Portion(amount, shares, total) == (amount * shares) \div total

\* Index of the first frame that names the lowest stream id.
LowestFrame(frames) ==
    CHOOSE i \in 1..Len(frames) :
        /\ \A j \in 1..Len(frames) : frames[i].streamId <= frames[j].streamId
        /\ \A j \in 1..(i - 1) : frames[j].streamId # frames[i].streamId

\* Amount of each StreamMoney frame: its floor portion, the remainder going
\* to the lowest stream id.
FrameAmountsFloored(amount, frames) ==
    [i \in 1..Len(frames) |->
        Portion(amount, frames[i].shares, TotalShares(frames))]
FrameAmounts(amount, frames) ==
    IF frames = <<>> THEN <<>>
    ELSE LET total == TotalShares(frames)
             base  == [i \in 1..Len(frames) |->
                          Portion(amount, frames[i].shares, total)]
             rem   == amount - SumSeq(base)
             low   == LowestFrame(frames)
         IN [i \in 1..Len(frames) |-> base[i] + (IF i = low THEN rem ELSE 0)]

\* totalReceived a receipt for stream s reports: the stream's new total.
ReceiptTotalTruncated(tot, s, amt) == tot[s] % 2
ReceiptTotal(tot, s, amt) == tot[s]

\* A stream may be credited amt when that keeps it within receive_max.
CanReceive(tot, rmax, s, amt) == tot[s] + amt <= rmax[s]

\* Credit the frames in order against receive_max; stop at the first stream
\* that would overflow.
RECURSIVE CreditFrames(_, _, _, _, _)
CreditFrames(frames, amts, i, tot, rmax) ==
    IF i > Len(frames) THEN [ok |-> TRUE, total |-> tot, stream |-> 0]
    ELSE LET s == frames[i].streamId IN
         IF ~CanReceive(tot, rmax, s, amts[i])
         THEN [ok |-> FALSE, total |-> tot, stream |-> s]
         ELSE CreditFrames(frames, amts, i + 1,
                           [tot EXCEPT ![s] = @ + amts[i]], rmax)

NamedStreams(frames) == {frames[i].streamId : i \in 1..Len(frames)}

\* The totals a rejected Prepare leaves behind: those from before it.
TotalsAfterRejectPartial(before, credited) == credited
TotalsAfterReject(before, credited) == before

\* The frames of the reject body of an overflowing Prepare.
OverflowFrames(s, rmax, tot) ==
    {[type |-> "StreamMaxMoney", streamId |-> s,
      receiveMax |-> rmax[s], totalReceived |-> tot[s]]}

\* Outcome of handling a Prepare of the given amount and StreamMoney frames:
\* the reply and the receiver's totals after it.
HandleMoney(amount, frames, tot, rmax) ==
    LET amts == FrameAmounts(amount, frames)
        c    == CreditFrames(frames, amts, 1, tot, rmax)
    IN IF c.ok
       THEN [kind     |-> "fulfill",
             code     |-> "",
             frames   |-> {[type |-> "StreamMaxMoney", streamId |-> s,
                            receiveMax |-> rmax[s],
                            totalReceived |-> c.total[s]] :
                           s \in NamedStreams(frames)},
             receipts |-> [s \in Streams |->
                             IF s \in NamedStreams(frames)
                             THEN ReceiptTotal(c.total, s, c.total[s] - tot[s])
                             ELSE -1],
             named    |-> NamedStreams(frames),
             before   |-> tot,
             total    |-> c.total]
       ELSE [kind     |-> "reject",
             code     |-> "F99",
             frames   |-> OverflowFrames(c.stream, rmax,
                                         TotalsAfterReject(tot, c.total)),
             receipts |-> [s \in Streams |-> -1],
             named    |-> NamedStreams(frames),
             before   |-> tot,
             total    |-> TotalsAfterReject(tot, c.total)]

\* What the sender of the Prepare gets back: Fulfill or Reject, the reject
\* code, and the frames of the response body; with it, the streams the
\* Prepare named.
ReplyOf(r) ==
    [kind |-> r.kind, code |-> r.code, frames |-> r.frames, named |-> r.named]

NoReply == [kind |-> "none", code |-> "", frames |-> {}, named |-> {}]

\* stream.setReceiveMax(n): the limit is absolute and takes effect at once.
SetReceiveMax(s, n) ==
    /\ receiveMax' = [receiveMax EXCEPT ![s] = n]
    /\ UNCHANGED <<totalReceived, lastReply>>

\* An incoming Prepare with any amount and any StreamMoney frames.
MoneyFrame == [streamId : Streams, shares : 1..MaxShares]
MoneyFrameLists ==
    UNION {[1..n -> MoneyFrame] : n \in 0..Len(StreamOrder)}

ReceivePrepare(amount, frames) ==
    LET r == HandleMoney(amount, frames, totalReceived, receiveMax) IN
    /\ totalReceived' = r.total
    /\ lastReply' = ReplyOf(r)
    /\ UNCHANGED receiveMax

\* ------------------------------------------------------ sender: the stream
\* Amount the stream may still commit: send_max - total_sent - holds, not
\* below zero.
Available(s) == Max(0, sendMax[s] - totalSent[s] - holds[s])

TotalAvailable == SumOver([s \in Streams |-> Available(s)], Streams)

\* stream.setSendMax(n): the limit is absolute; it is refused below the amount
\* already sent and leaves the hold of a Prepare in flight alone.
SendMaxAccepted(s, n) == n >= totalSent[s]

SetSendMax(s, n) ==
    /\ connState = "open"
    /\ SendMaxAccepted(s, n)
    /\ sendMax' = [sendMax EXCEPT ![s] = n]
    /\ UNCHANGED <<totalSent, holds, nextPacketSequence, awaiting, network,
                   connState, sentLog, outData, receipt, receiptPrev>>
    /\ UNCHANGED recvVars

\* stream.write(bytes): bytes wait for the send loop.
Write ==
    /\ connState = "open"
    /\ ~outData
    /\ outData' = TRUE
    /\ UNCHANGED <<sendMax, totalSent, holds, nextPacketSequence, awaiting,
                   network, connState, sentLog, receipt, receiptPrev>>
    /\ UNCHANGED recvVars

\* -------------------------------------------------- sender: the send loop
\* The amount of a packet is taken from the streams in id order, each giving
\* what it has available until the packet is full.
RECURSIVE FillHolds(_, _, _)
FillHolds(i, remaining, acc) ==
    IF i > Len(StreamOrder) THEN acc
    ELSE LET s    == StreamOrder[i]
             take == Min(Available(s), remaining)
         IN FillHolds(i + 1, remaining - take, [acc EXCEPT ![s] = take])

\* One StreamMoney frame per contributing stream, its shares the amount held.
RECURSIVE MoneyFramesOf(_, _)
MoneyFramesOf(h, i) ==
    IF i > Len(StreamOrder) THEN <<>>
    ELSE LET s == StreamOrder[i] IN
         (IF h[s] > 0 THEN <<[streamId |-> s, shares |-> h[s]]>> ELSE <<>>)
         \o MoneyFramesOf(h, i + 1)

\* The sequence number given to the next packet, and the counter after it.
SequenceForPacketReused ==
    IF sentLog = <<>> THEN nextPacketSequence ELSE sentLog[Len(sentLog)]
SequenceForPacket == nextPacketSequence

\* The send loop sends only when no Prepare of its own is awaited.
LoopIdle == awaiting = 0

\* A Prepare handed to the plugin.
PreparePacket(seq, amount, frames, close) ==
    [seq |-> seq, amount |-> amount, frames |-> frames, close |-> close]

\* loadAndSendPacket: plan a packet of the given amount, commit the holds,
\* hand the Prepare to the plugin and await the response.
Dispatch(amount) ==
    /\ connState \in {"open", "closing"}
    /\ LoopIdle
    /\ nextPacketSequence < MaxSequence
    /\ amount <= TotalAvailable
    /\ amount > 0 \/ outData
    /\ LET h == FillHolds(1, amount, ZeroPerStream) IN
       /\ holds' = [s \in Streams |-> holds[s] + h[s]]
       /\ network' = network \cup
              {PreparePacket(SequenceForPacket, amount,
                             MoneyFramesOf(h, 1), FALSE)}
    /\ awaiting' = SequenceForPacket
    /\ sentLog' = Append(sentLog, SequenceForPacket)
    /\ nextPacketSequence' = nextPacketSequence + 1
    /\ UNCHANGED <<sendMax, totalSent, connState, outData, receipt, receiptPrev>>
    /\ UNCHANGED recvVars

\* ------------------------------------------------ sender: response handling
\* Reject codes after which the send loop sends the money again.
Retryable(code) == code \in {"T00", "F08", "F99"}

\* Reject codes the network itself answers with.
NetworkRejectCodes == {"T00", "F08", "F02"}

\* The ConnectionClose packet: sent with a new sequence number and awaited;
\* when the sequence numbers are used up the connection closes without it.
SendConnectionClose(net) ==
    IF nextPacketSequence < MaxSequence
    THEN /\ network' = net \cup
                {PreparePacket(SequenceForPacket, 0, <<>>, TRUE)}
         /\ awaiting' = SequenceForPacket
         /\ sentLog' = Append(sentLog, SequenceForPacket)
         /\ nextPacketSequence' = nextPacketSequence + 1
         /\ connState' = "closeSent"
    ELSE /\ network' = net
         /\ awaiting' = 0
         /\ connState' = "closed"
         /\ UNCHANGED <<sentLog, nextPacketSequence>>

\* Fulfill of the awaited Prepare: holds move into total_sent, receipts are
\* recorded, the written bytes are sent.
ApplyFulfill(p, reply) ==
    /\ totalSent' = [s \in Streams |-> totalSent[s] + holds[s]]
    /\ holds' = ZeroPerStream
    /\ awaiting' = 0
    /\ network' = network \ {p}
    /\ outData' = FALSE
    /\ receipt' = [s \in Streams |->
                     IF reply.receipts[s] >= 0 THEN reply.receipts[s]
                     ELSE receipt[s]]
    /\ receiptPrev' = [s \in Streams |->
                         IF reply.receipts[s] >= 0 THEN receipt[s]
                         ELSE receiptPrev[s]]
    /\ connState' = IF p.close THEN "closed" ELSE connState
    /\ UNCHANGED <<sendMax, nextPacketSequence, sentLog>>

\* Reject of the awaited Prepare: holds are released; a retryable code leaves
\* the money to the next pass of the send loop, any other closes the connection.
ApplyReject(p, code) ==
    /\ holds' = ZeroPerStream
    /\ UNCHANGED <<sendMax, totalSent, receipt, receiptPrev>>
    /\ IF p.close
       THEN /\ connState' = "closed"
            /\ awaiting' = 0
            /\ network' = network \ {p}
            /\ UNCHANGED <<nextPacketSequence, sentLog, outData>>
       ELSE IF Retryable(code)
       THEN /\ awaiting' = 0
            /\ network' = network \ {p}
            /\ UNCHANGED <<connState, nextPacketSequence, sentLog, outData>>
       ELSE /\ SendConnectionClose(network \ {p})
            /\ outData' = FALSE

\* The response of a Prepare that is no longer awaited is discarded.
DiscardResponse(p) ==
    /\ network' = network \ {p}
    /\ UNCHANGED <<sendMax, totalSent, holds, nextPacketSequence, awaiting,
                   connState, sentLog, outData, receipt, receiptPrev>>

\* A Prepare reaches the receiver, which fulfills or rejects it; the response
\* comes back to the sender.
Deliver(p) ==
    /\ p \in network
    /\ LET r == HandleMoney(p.amount, p.frames, totalReceived, receiveMax) IN
       /\ totalReceived' = r.total
       /\ lastReply' = ReplyOf(r)
       /\ UNCHANGED receiveMax
       /\ IF p.seq # awaiting THEN DiscardResponse(p)
          ELSE IF r.kind = "fulfill" THEN ApplyFulfill(p, r)
          ELSE ApplyReject(p, r.code)

\* The network rejects a Prepare before it reaches the receiver.
NetworkReject(p, code) ==
    /\ p \in network
    /\ UNCHANGED recvVars
    /\ IF p.seq # awaiting THEN DiscardResponse(p)
       ELSE ApplyReject(p, code)

\* ------------------------------------------------------- sender: closing
\* connection.end(): drain, then send ConnectionClose.
End ==
    /\ connState = "open"
    /\ connState' = "closing"
    /\ UNCHANGED <<sendMax, totalSent, holds, nextPacketSequence, awaiting,
                   network, sentLog, outData, receipt, receiptPrev>>
    /\ UNCHANGED recvVars

DrainedAndClose ==
    /\ connState = "closing"
    /\ LoopIdle
    /\ TotalAvailable = 0
    /\ ~outData
    /\ SendConnectionClose(network)
    /\ UNCHANGED <<sendMax, totalSent, holds, outData, receipt, receiptPrev>>
    /\ UNCHANGED recvVars

\* connection.destroy(): the wait for the Prepare in flight is aborted, its
\* holds are released, and ConnectionClose is sent without draining.
Destroy ==
    /\ connState \in {"open", "closing"}
    /\ holds' = ZeroPerStream
    /\ outData' = FALSE
    /\ SendConnectionClose(network)
    /\ UNCHANGED <<sendMax, totalSent, receipt, receiptPrev>>
    /\ UNCHANGED recvVars

\* The sequence numbers are used up: the connection closes.
SequenceExhausted ==
    /\ connState \in {"open", "closing"}
    /\ LoopIdle
    /\ nextPacketSequence >= MaxSequence
    /\ connState' = "closed"
    /\ holds' = ZeroPerStream
    /\ UNCHANGED <<sendMax, totalSent, nextPacketSequence, awaiting, network,
                   sentLog, outData, receipt, receiptPrev>>
    /\ UNCHANGED recvVars

\* ------------------------------------------------- codec: OER primitives
\* Buffers are sequences of bytes 0..255; a reader is a buffer and the number
\* of bytes consumed; a read returns the value and the new position or fails.
Fail == [ok |-> FALSE, val |-> <<>>, pos |-> 0]
Got(v, p) == [ok |-> TRUE, val |-> v, pos |-> p]

RECURSIVE Pow256(_)
Pow256(n) == IF n = 0 THEN 1 ELSE 256 * Pow256(n - 1)

\* Big-endian bytes of an unsigned integer, at least one byte.
RECURSIVE UIntBytes(_)
UIntBytes(n) ==
    IF n < 256 THEN <<n>> ELSE UIntBytes(n \div 256) \o <<n % 256>>

RECURSIVE BytesToUInt(_)
BytesToUInt(b) ==
    IF b = <<>> THEN 0
    ELSE BytesToUInt(SubSeq(b, 1, Len(b) - 1)) * 256 + b[Len(b)]

\* Writer.writeUInt8
WriteUInt8(n) == <<n>>

\* Writer.writeVarOctetString: the length prefix is one byte below 128,
\* otherwise 0x80 | (number of length bytes) followed by the length.
LengthPrefix(n) ==
    IF n < 128 THEN <<n>>
    ELSE LET l == UIntBytes(n) IN <<128 + Len(l)>> \o l

WriteVarOctetString(b) == LengthPrefix(Len(b)) \o b

\* Writer.writeVarUInt: the minimal big-endian bytes as a var octet string.
WriteVarUIntFixed(n) == WriteVarOctetString(<<n % 256>>)
WriteVarUInt(n) == WriteVarOctetString(UIntBytes(n))

\* Reader.readUInt8BigNum / peekUInt8BigNum
ReadUInt8(b, pos) ==
    IF pos + 1 > Len(b) THEN Fail ELSE Got(b[pos + 1], pos + 1)

PeekUInt8(b, pos) ==
    IF pos + 1 > Len(b) THEN Fail ELSE Got(b[pos + 1], pos)

\* Reader.readLengthPrefix, long form: n length bytes follow; the length must
\* be canonical. A length of 2^24 or more lies beyond any buffer here.
LongLength(b, pos, n) ==
    IF n = 0 \/ n > 3 \/ pos + n > Len(b) THEN Fail
    ELSE IF BytesToUInt(SubSeq(b, pos + 1, pos + n)) < Max(128, Pow256(n - 1))
         THEN Fail
    ELSE Got(BytesToUInt(SubSeq(b, pos + 1, pos + n)), pos + n)

\* Reader.readLengthPrefix, given the first byte read.
LengthAfter(b, first) ==
    IF ~first.ok THEN Fail
    ELSE IF first.val < 128 THEN first
    ELSE LongLength(b, first.pos, first.val - 128)

ReadLengthPrefix(b, pos) == LengthAfter(b, ReadUInt8(b, pos))

\* Reader.readVarOctetString, given the length prefix read.
OctetsAfter(b, lp) ==
    IF ~lp.ok \/ lp.pos + lp.val > Len(b) THEN Fail
    ELSE Got(SubSeq(b, lp.pos + 1, lp.pos + lp.val), lp.pos + lp.val)

\* Reader.readVarOctetString
ReadVarOctetString(b, pos) == OctetsAfter(b, ReadLengthPrefix(b, pos))

\* Reader.skipVarOctetString
SkipVarOctetString(b, pos) == ReadVarOctetString(b, pos)

\* Reader.readVarUIntBigNum, given the octet string read: an empty one is
\* not a number.
UIntOf(os) ==
    IF ~os.ok \/ os.val = <<>> THEN Fail
    ELSE Got(BytesToUInt(os.val), os.pos)

\* Reader.readVarUIntBigNum
ReadVarUInt(b, pos) == UIntOf(ReadVarOctetString(b, pos))

\* One read of a reader, by the kind of the field.
ReadField(b, pos, kind) ==
    CASE kind = "UInt8" -> ReadUInt8(b, pos)
      [] kind = "VarUInt" -> ReadVarUInt(b, pos)
      [] kind = "VarOctetString" -> ReadVarOctetString(b, pos)

\* Reads in sequence: each starts where the one before ended; the first
\* that throws ends them all.
RECURSIVE ReadFields(_, _, _, _)
RECURSIVE FieldsAfter(_, _, _, _)
ReadFields(b, pos, kinds, vals) ==
    IF kinds = <<>> THEN Got(vals, pos)
    ELSE FieldsAfter(b, ReadField(b, pos, Head(kinds)), Tail(kinds), vals)

FieldsAfter(b, r, kinds, vals) ==
    IF ~r.ok THEN Fail
    ELSE ReadFields(b, r.pos, kinds, Append(vals, <<r.val>>))

\* The UTF-8 bytes of one Unicode scalar value.
Utf8Bytes(c) ==
    IF c < 128 THEN <<c>>
    ELSE IF c < 2048 THEN <<192 + (c \div 64), 128 + (c % 64)>>
    ELSE IF c < 65536
         THEN <<224 + (c \div 4096), 128 + ((c \div 64) % 64), 128 + (c % 64)>>
    ELSE <<240 + (c \div 262144), 128 + ((c \div 4096) % 64),
           128 + ((c \div 64) % 64), 128 + (c % 64)>>

IsHighSurrogate(c) == c >= 55296 /\ c <= 56319
IsLowSurrogate(c) == c >= 56320 /\ c <= 57343

\* Buffer.from(string, 'utf8'): strings are sequences of code points. A high
\* surrogate followed by a low one is the character they spell; a surrogate
\* without its partner is written as U+FFFD.
RECURSIVE Utf8Encode(_)
Utf8Encode(str) ==
    IF str = <<>> THEN <<>>
    ELSE IF IsHighSurrogate(str[1]) /\ Len(str) >= 2 /\ IsLowSurrogate(str[2])
         THEN Utf8Bytes(65536 + (str[1] - 55296) * 1024 + (str[2] - 56320))
              \o Utf8Encode(Tail(Tail(str)))
    ELSE IF IsHighSurrogate(str[1]) \/ IsLowSurrogate(str[1])
         THEN Utf8Bytes(65533) \o Utf8Encode(Tail(str))
    ELSE Utf8Bytes(str[1]) \o Utf8Encode(Tail(str))

IsCont(b, i) == i <= Len(b) /\ b[i] >= 128 /\ b[i] < 192

\* The bytes that may follow lead byte b[i]: none for a byte that leads no
\* well-formed sequence, and a narrower second byte after E0, ED, F0 and F4
\* (no overlong form, no surrogate, nothing above U+10FFFF).
Utf8Needed(lead) ==
    IF lead >= 194 /\ lead < 224 THEN 1
    ELSE IF lead >= 224 /\ lead < 240 THEN 2
    ELSE IF lead >= 240 /\ lead < 245 THEN 3
    ELSE 0

IsSecond(b, i, lead) ==
    /\ i <= Len(b)
    /\ b[i] >= (IF lead = 224 THEN 160 ELSE IF lead = 240 THEN 144 ELSE 128)
    /\ b[i] <= (IF lead = 237 THEN 159 ELSE IF lead = 244 THEN 143 ELSE 191)

\* buffer.toString('utf8'): a byte that starts no well-formed sequence
\* becomes U+FFFD, and so does the longest well-formed start of a sequence
\* that is cut or broken, as one character; decoding goes on at the byte
\* that broke it.
RECURSIVE Utf8Decode(_, _)
Utf8Decode(b, i) ==
    IF i > Len(b) THEN <<>>
    ELSE IF b[i] < 128 THEN <<b[i]>> \o Utf8Decode(b, i + 1)
    ELSE IF Utf8Needed(b[i]) = 0 \/ ~IsSecond(b, i + 1, b[i])
         THEN <<65533>> \o Utf8Decode(b, i + 1)
    ELSE IF Utf8Needed(b[i]) = 1
         THEN <<(b[i] - 192) * 64 + (b[i + 1] - 128)>> \o Utf8Decode(b, i + 2)
    ELSE IF ~IsCont(b, i + 2) THEN <<65533>> \o Utf8Decode(b, i + 2)
    ELSE IF Utf8Needed(b[i]) = 2
         THEN <<(b[i] - 224) * 4096 + (b[i + 1] - 128) * 64 + (b[i + 2] - 128)>>
              \o Utf8Decode(b, i + 3)
    ELSE IF ~IsCont(b, i + 3) THEN <<65533>> \o Utf8Decode(b, i + 3)
    ELSE <<(b[i] - 240) * 262144 + (b[i + 1] - 128) * 4096
             + (b[i + 2] - 128) * 64 + (b[i + 3] - 128)>>
         \o Utf8Decode(b, i + 4)

\* --------------------------------------------------- codec: frame classes
VERSION == 1

IlpPacketType == [Prepare |-> 12, Fulfill |-> 13, Reject |-> 14]

FrameType ==
    [Padding |-> 0, ConnectionClose |-> 1, ConnectionNewAddress |-> 2,
     ConnectionMaxData |-> 3, ConnectionDataBlocked |-> 4,
     ConnectionMaxStreamId |-> 5, ConnectionStreamIdBlocked |-> 6,
     StreamClose |-> 16, StreamMoney |-> 17, StreamMaxMoney |-> 18,
     StreamMoneyBlocked |-> 19, StreamData |-> 20, StreamMaxData |-> 21,
     StreamDataBlocked |-> 22]

\* enum ErrorCode: NoError = 0x01 .. ApplicationError = 0x0a, with the
\* reverse mapping from number to name (undefined outside the enum).
ErrorCodeNames ==
    <<"NoError", "InternalError", "ServerBusy", "FlowControlError",
      "StreamIdError", "StreamStateError", "FinalOffsetError",
      "FrameFormatError", "ProtocolViolation", "ApplicationError">>

ErrorCode(name) == CHOOSE n \in 1..Len(ErrorCodeNames) : ErrorCodeNames[n] = name

ErrorCodeName(n) ==
    IF n \in 1..Len(ErrorCodeNames) THEN ErrorCodeNames[n] ELSE "undefined"

\* assertType
AssertType(b, pos, type) ==
    LET t == ReadUInt8(b, pos) IN
    IF t.ok /\ t.val = type THEN t ELSE Fail

\* The fields read from the frame's contents, a reader of their own; the
\* outer reader moves past the contents.
FieldsOfContents(c, kinds) ==
    IF ~c.ok THEN Fail
    ELSE [ReadFields(c.val, 0, kinds, <<>>) EXCEPT !.pos = c.pos]

ContentsAfter(b, a) == IF ~a.ok THEN Fail ELSE ReadVarOctetString(b, a.pos)

\* fromBuffer: assertType, Reader.from(reader.readVarOctetString()), then
\* the fields in order.
FrameFields(b, pos, type, kinds) ==
    FieldsOfContents(ContentsAfter(b, AssertType(b, pos, type)), kinds)

\* writeTo: the type byte, then the contents as a var octet string.
Envelope(type, contents) == WriteUInt8(type) \o WriteVarOctetString(contents)

\* BaseFrame constructor: the type is FrameType[name].
BaseFrame(name) == [type |-> FrameType[name], name |-> name]

ConnectionNewAddressFromBuffer(b, pos) ==
    LET r == FrameFields(b, pos, FrameType.ConnectionNewAddress, <<"VarOctetString">>) IN
    IF ~r.ok THEN Fail
    ELSE Got(BaseFrame("ConnectionNewAddress")
             @@ [sourceAccount |-> Utf8Decode(r.val[1][1], 1)], r.pos)

ConnectionNewAddressWriteTo(f) ==
    Envelope(f.type, WriteVarOctetString(Utf8Encode(f.sourceAccount)))

ConnectionCloseFromBuffer(b, pos) ==
    LET r == FrameFields(b, pos, FrameType.ConnectionClose, <<"UInt8", "VarOctetString">>) IN
    IF ~r.ok THEN Fail
    ELSE Got(BaseFrame("ConnectionClose")
             @@ [errorCode |-> ErrorCodeName(r.val[1][1]),
                 errorMessage |-> Utf8Decode(r.val[2][1], 1)], r.pos)

ConnectionCloseWriteTo(f) ==
    Envelope(f.type, WriteUInt8(ErrorCode(f.errorCode))
                     \o WriteVarOctetString(Utf8Encode(f.errorMessage)))

ConnectionMaxDataFromBuffer(b, pos) ==
    LET r == FrameFields(b, pos, FrameType.ConnectionMaxData, <<"VarUInt">>) IN
    IF ~r.ok THEN Fail
    ELSE Got(BaseFrame("ConnectionMaxData")
             @@ [maxOffset |-> r.val[1][1]], r.pos)

ConnectionMaxDataWriteTo(f) ==
    Envelope(f.type, WriteVarUInt(f.maxOffset))

ConnectionDataBlockedFromBuffer(b, pos) ==
    LET r == FrameFields(b, pos, FrameType.ConnectionDataBlocked, <<"VarUInt">>) IN
    IF ~r.ok THEN Fail
    ELSE Got(BaseFrame("ConnectionDataBlocked")
             @@ [maxOffset |-> r.val[1][1]], r.pos)

ConnectionDataBlockedWriteTo(f) ==
    Envelope(f.type, WriteVarUInt(f.maxOffset))

ConnectionMaxStreamIdFromBuffer(b, pos) ==
    LET r == FrameFields(b, pos, FrameType.ConnectionMaxStreamId, <<"VarUInt">>) IN
    IF ~r.ok THEN Fail
    ELSE Got(BaseFrame("ConnectionMaxStreamId")
             @@ [maxStreamId |-> r.val[1][1]], r.pos)

ConnectionMaxStreamIdWriteTo(f) ==
    Envelope(f.type, WriteVarUInt(f.maxStreamId))

ConnectionStreamIdBlockedFromBuffer(b, pos) ==
    LET r == FrameFields(b, pos, FrameType.ConnectionStreamIdBlocked, <<"VarUInt">>) IN
    IF ~r.ok THEN Fail
    ELSE Got(BaseFrame("ConnectionStreamIdBlocked")
             @@ [maxStreamId |-> r.val[1][1]], r.pos)

ConnectionStreamIdBlockedWriteTo(f) ==
    Envelope(f.type, WriteVarUInt(f.maxStreamId))

StreamMoneyFromBuffer(b, pos) ==
    LET r == FrameFields(b, pos, FrameType.StreamMoney, <<"VarUInt", "VarUInt">>) IN
    IF ~r.ok THEN Fail
    ELSE Got(BaseFrame("StreamMoney")
             @@ [streamId |-> r.val[1][1],
                 shares |-> r.val[2][1]], r.pos)

StreamMoneyWriteTo(f) ==
    Envelope(f.type, WriteVarUInt(f.streamId)
                     \o WriteVarUInt(f.shares))

StreamMaxMoneyFromBuffer(b, pos) ==
    LET r == FrameFields(b, pos, FrameType.StreamMaxMoney, <<"VarUInt", "VarUInt", "VarUInt">>) IN
    IF ~r.ok THEN Fail
    ELSE Got(BaseFrame("StreamMaxMoney")
             @@ [streamId |-> r.val[1][1],
                 receiveMax |-> r.val[2][1],
                 totalReceived |-> r.val[3][1]], r.pos)

StreamMaxMoneyWriteTo(f) ==
    Envelope(f.type, WriteVarUInt(f.streamId)
                     \o WriteVarUInt(f.receiveMax)
                     \o WriteVarUInt(f.totalReceived))

StreamMoneyBlockedFromBuffer(b, pos) ==
    LET r == FrameFields(b, pos, FrameType.StreamMoneyBlocked, <<"VarUInt", "VarUInt", "VarUInt">>) IN
    IF ~r.ok THEN Fail
    ELSE Got(BaseFrame("StreamMoneyBlocked")
             @@ [streamId |-> r.val[1][1],
                 sendMax |-> r.val[2][1],
                 totalSent |-> r.val[3][1]], r.pos)

StreamMoneyBlockedWriteTo(f) ==
    Envelope(f.type, WriteVarUInt(f.streamId)
                     \o WriteVarUInt(f.sendMax)
                     \o WriteVarUInt(f.totalSent))

StreamCloseFromBuffer(b, pos) ==
    LET r == FrameFields(b, pos, FrameType.StreamClose, <<"VarUInt", "UInt8", "VarOctetString">>) IN
    IF ~r.ok THEN Fail
    ELSE Got(BaseFrame("StreamClose")
             @@ [streamId |-> r.val[1][1],
                 errorCode |-> ErrorCodeName(r.val[2][1]),
                 errorMessage |-> Utf8Decode(r.val[3][1], 1)], r.pos)

StreamCloseWriteTo(f) ==
    Envelope(f.type, WriteVarUInt(f.streamId)
                     \o WriteUInt8(ErrorCode(f.errorCode))
                     \o WriteVarOctetString(Utf8Encode(f.errorMessage)))

StreamDataFromBuffer(b, pos) ==
    LET r == FrameFields(b, pos, FrameType.StreamData, <<"VarUInt", "VarUInt", "VarOctetString">>) IN
    IF ~r.ok THEN Fail
    ELSE Got(BaseFrame("StreamData")
             @@ [streamId |-> r.val[1][1],
                 offset |-> r.val[2][1],
                 data |-> r.val[3][1]], r.pos)

StreamDataWriteTo(f) ==
    Envelope(f.type, WriteVarUInt(f.streamId)
                     \o WriteVarUInt(f.offset)
                     \o WriteVarOctetString(f.data))

StreamMaxDataFromBuffer(b, pos) ==
    LET r == FrameFields(b, pos, FrameType.StreamMaxData, <<"VarUInt", "VarUInt">>) IN
    IF ~r.ok THEN Fail
    ELSE Got(BaseFrame("StreamMaxData")
             @@ [streamId |-> r.val[1][1],
                 maxOffset |-> r.val[2][1]], r.pos)

StreamMaxDataWriteTo(f) ==
    Envelope(f.type, WriteVarUInt(f.streamId)
                     \o WriteVarUInt(f.maxOffset))

StreamDataBlockedFromBuffer(b, pos) ==
    LET r == FrameFields(b, pos, FrameType.StreamDataBlocked, <<"VarUInt", "VarUInt">>) IN
    IF ~r.ok THEN Fail
    ELSE Got(BaseFrame("StreamDataBlocked")
             @@ [streamId |-> r.val[1][1],
                 maxOffset |-> r.val[2][1]], r.pos)

StreamDataBlockedWriteTo(f) ==
    Envelope(f.type, WriteVarUInt(f.streamId)
                     \o WriteVarUInt(f.maxOffset))

\* -------------------------------------------------- codec: packet and frames
\* frame.writeTo(writer), by the class of the frame.
FrameWriteTo(f) ==
    CASE f.type = FrameType.ConnectionClose -> ConnectionCloseWriteTo(f)
      [] f.type = FrameType.ConnectionNewAddress -> ConnectionNewAddressWriteTo(f)
      [] f.type = FrameType.ConnectionMaxData -> ConnectionMaxDataWriteTo(f)
      [] f.type = FrameType.ConnectionDataBlocked -> ConnectionDataBlockedWriteTo(f)
      [] f.type = FrameType.ConnectionMaxStreamId -> ConnectionMaxStreamIdWriteTo(f)
      [] f.type = FrameType.ConnectionStreamIdBlocked ->
             ConnectionStreamIdBlockedWriteTo(f)
      [] f.type = FrameType.StreamClose -> StreamCloseWriteTo(f)
      [] f.type = FrameType.StreamMoney -> StreamMoneyWriteTo(f)
      [] f.type = FrameType.StreamMaxMoney -> StreamMaxMoneyWriteTo(f)
      [] f.type = FrameType.StreamMoneyBlocked -> StreamMoneyBlockedWriteTo(f)
      [] f.type = FrameType.StreamData -> StreamDataWriteTo(f)
      [] f.type = FrameType.StreamMaxData -> StreamMaxDataWriteTo(f)
      [] f.type = FrameType.StreamDataBlocked -> StreamDataBlockedWriteTo(f)

\* What parseFrame returns for a frame it skips.
Undefined == [name |-> "undefined"]

SkippedAfter(s) == IF ~s.ok THEN Fail ELSE Got(Undefined, s.pos)

\* The default branch of parseFrame: skipUInt8, skipVarOctetString.
SkipFrameKeepContents(b, pos) ==
    SkippedAfter(ReadLengthPrefix(b, pos + 1))
SkipFrame(b, pos) ==
    SkippedAfter(SkipVarOctetString(b, pos + 1))

FrameOfType(type, b, pos) ==
    CASE type = FrameType.ConnectionClose -> ConnectionCloseFromBuffer(b, pos)
      [] type = FrameType.ConnectionNewAddress ->
             ConnectionNewAddressFromBuffer(b, pos)
      [] type = FrameType.ConnectionMaxData -> ConnectionMaxDataFromBuffer(b, pos)
      [] type = FrameType.ConnectionDataBlocked ->
             ConnectionDataBlockedFromBuffer(b, pos)
      [] type = FrameType.ConnectionMaxStreamId ->
             ConnectionMaxStreamIdFromBuffer(b, pos)
      [] type = FrameType.ConnectionStreamIdBlocked ->
             ConnectionStreamIdBlockedFromBuffer(b, pos)
      [] type = FrameType.StreamClose -> StreamCloseFromBuffer(b, pos)
      [] type = FrameType.StreamMoney -> StreamMoneyFromBuffer(b, pos)
      [] type = FrameType.StreamMaxMoney -> StreamMaxMoneyFromBuffer(b, pos)
      [] type = FrameType.StreamMoneyBlocked -> StreamMoneyBlockedFromBuffer(b, pos)
      [] type = FrameType.StreamData -> StreamDataFromBuffer(b, pos)
      [] type = FrameType.StreamMaxData -> StreamMaxDataFromBuffer(b, pos)
      [] type = FrameType.StreamDataBlocked -> StreamDataBlockedFromBuffer(b, pos)
      [] OTHER -> SkipFrame(b, pos)

\* parseFrame: peek the type byte, then the class of that type or the skip.
parseFrame(b, pos) ==
    IF ~PeekUInt8(b, pos).ok THEN Fail
    ELSE FrameOfType(PeekUInt8(b, pos).val, b, pos)

Packet(sequence, ilpPacketType, packetAmount, frames) ==
    [sequence |-> sequence, ilpPacketType |-> ilpPacketType,
     prepareAmount |-> packetAmount, frames |-> frames]

\* Packet.writeTo up to the frame count, and the frames one after the other.
PacketHeader(p, numFrames) ==
    WriteUInt8(VERSION) \o WriteUInt8(p.ilpPacketType)
    \o WriteVarUInt(p.sequence) \o WriteVarUInt(p.prepareAmount)
    \o WriteVarUInt(numFrames)

RECURSIVE FramesWriteTo(_)
FramesWriteTo(frames) ==
    IF frames = <<>> THEN <<>>
    ELSE FrameWriteTo(Head(frames)) \o FramesWriteTo(Tail(frames))

\* Packet.writeTo / Packet._serialize
PacketWriteTo(p) == PacketHeader(p, Len(p.frames)) \o FramesWriteTo(p.frames)

\* The loop of _deserializeUnencrypted: numFrames calls of parseFrame, the
\* frames it returns pushed in order, the skipped ones left out.
RECURSIVE ParseFrames(_, _, _, _)
RECURSIVE PushFrame(_, _, _, _)
ParseFrames(b, pos, remaining, frames) ==
    IF remaining = 0 THEN Got(frames, pos)
    ELSE PushFrame(b, parseFrame(b, pos), remaining, frames)

PushFrame(b, f, remaining, frames) ==
    IF ~f.ok THEN Fail
    ELSE ParseFrames(b, f.pos, remaining - 1,
                     IF f.val.name = Undefined.name THEN frames
                     ELSE Append(frames, f.val))

\* What _deserializeUnencrypted throws: a read past the end or a malformed
\* field, or the error of the version check.
Thrown == [ok |-> FALSE, packet |-> Packet(0, 0, 0, <<>>), error |-> "read"]
UnsupportedVersion ==
    [ok |-> FALSE, packet |-> Packet(0, 0, 0, <<>>),
     error |-> "Unsupported protocol version"]
Returned(p) == [ok |-> TRUE, packet |-> p, error |-> ""]

\* _deserializeUnencrypted once type, sequence, amount and frame count are
\* read and the frames are parsed.
PacketOf(h, fs) ==
    IF ~fs.ok THEN Thrown
    ELSE Returned(Packet(h.val[2][1], h.val[1][1], h.val[3][1], fs.val))

FramesAfterHeader(b, h) ==
    IF ~h.ok THEN Thrown
    ELSE PacketOf(h, ParseFrames(b, h.pos, h.val[4][1], <<>>))

\* _deserializeUnencrypted once the version byte is read: any version but
\* VERSION is refused before anything else is read.
VersionUnchecked(b, v) ==
    IF ~v.ok THEN Thrown
    ELSE FramesAfterHeader(b, ReadFields(b, v.pos,
             <<"UInt8", "VarUInt", "VarUInt", "VarUInt">>, <<>>))
VersionChecked(b, v) ==
    IF ~v.ok THEN Thrown
    ELSE IF v.val # VERSION THEN UnsupportedVersion
    ELSE FramesAfterHeader(b, ReadFields(b, v.pos,
             <<"UInt8", "VarUInt", "VarUInt", "VarUInt">>, <<>>))

\* Packet._deserializeUnencrypted
DeserializeUnencrypted(b) == VersionChecked(b, ReadUInt8(b, 0))

\* ------------------------------------------------------ codec: the inputs
\* Strings as code points: empty, ASCII, characters of two, three and four
\* UTF-8 bytes (U+1F600 is the surrogate pair D83D DE00 of the string), and
\* a string that holds the surrogate D800 without its partner.
TextSamples ==
    << <<>>, <<104, 105>>, <<111, 233>>, <<8364, 33>>, <<103, 128512>>,
       <<55296>> >>

\* Payloads; the last one needs the long form of the length prefix.
LongData == [i \in 1..130 |-> (i * 7) % 256]
DataSamples == << <<>>, <<0>>, <<255, 1>>, LongData >>

\* Headers: every ILP packet type, sequence and amount on both sides of the
\* byte-length boundaries of a var-uint.
HeaderSamples ==
    { Packet(0, IlpPacketType.Prepare, MaxUInt, <<>>),
      Packet(127, IlpPacketType.Fulfill, 128, <<>>),
      Packet(255, IlpPacketType.Reject, 256, <<>>),
      Packet(65536, IlpPacketType.Prepare, 65535, <<>>),
      Packet(MaxUInt, IlpPacketType.Reject, 0, <<>>) }

\* new XFrame(fields...)
NewFrame(name, fields) == BaseFrame(name) @@ fields

FrameSamples ==
    { NewFrame("ConnectionClose", [errorCode |-> ErrorCodeNames[n],
                                       errorMessage |-> TextSamples[(n % 4) + 1]]) :
          n \in 1..Len(ErrorCodeNames) }
    \cup { NewFrame("ConnectionNewAddress", [sourceAccount |-> <<>>]),
           NewFrame("ConnectionNewAddress",
                    [sourceAccount |-> <<116, 101, 115, 116, 46, 97>>]),
           NewFrame("ConnectionMaxData", [maxOffset |-> 0]),
           NewFrame("ConnectionDataBlocked", [maxOffset |-> 127]),
           NewFrame("ConnectionMaxStreamId", [maxStreamId |-> 128]),
           NewFrame("ConnectionStreamIdBlocked", [maxStreamId |-> MaxUInt]),
           NewFrame("StreamClose", [streamId |-> 1, errorCode |-> "NoError",
                                   errorMessage |-> <<>>]),
           NewFrame("StreamClose", [streamId |-> 256,
                                   errorCode |-> "ApplicationError",
                                   errorMessage |-> TextSamples[3]]),
           NewFrame("StreamClose", [streamId |-> 3, errorCode |-> "NoError",
                                   errorMessage |-> TextSamples[5]]),
           NewFrame("ConnectionNewAddress", [sourceAccount |-> TextSamples[5]]),
           NewFrame("ConnectionClose", [errorCode |-> "InternalError",
                                       errorMessage |-> TextSamples[6]]),
           NewFrame("StreamMoney", [streamId |-> 1, shares |-> 1]),
           NewFrame("StreamMoney", [streamId |-> 255, shares |-> 65536]),
           NewFrame("StreamMaxMoney", [streamId |-> 1, receiveMax |-> MaxUInt,
                                      totalReceived |-> 0]),
           NewFrame("StreamMaxMoney", [streamId |-> 3, receiveMax |-> 256,
                                      totalReceived |-> 255]),
           NewFrame("StreamMoneyBlocked", [streamId |-> 1, sendMax |-> 65535,
                                          totalSent |-> 128]),
           NewFrame("StreamData", [streamId |-> 1, offset |-> 0,
                                  data |-> DataSamples[1]]),
           NewFrame("StreamData", [streamId |-> 2, offset |-> 3,
                                  data |-> DataSamples[3]]),
           NewFrame("StreamData", [streamId |-> 1, offset |-> 65536,
                                  data |-> DataSamples[4]]),
           NewFrame("StreamMaxData", [streamId |-> 1, maxOffset |-> MaxUInt]),
           NewFrame("StreamDataBlocked", [streamId |-> 1, maxOffset |-> 0]) }

FrameLists(S) == UNION {[1..n -> S] : n \in 0..MaxFrames}

Packets(headers, frames) ==
    { Packet(h.sequence, h.ilpPacketType, h.prepareAmount, fs) :
          h \in headers, fs \in FrameLists(frames) }

\* A smaller set of packets for the frames of another version.
SkipHeaderSamples ==
    { Packet(1, IlpPacketType.Prepare, 256, <<>>),
      Packet(MaxUInt, IlpPacketType.Reject, 0, <<>>) }

SkipFrameSamples ==
    { NewFrame("ConnectionClose", [errorCode |-> "NoError",
                                   errorMessage |-> TextSamples[2]]),
      NewFrame("ConnectionNewAddress",
                    [sourceAccount |-> <<116, 101, 115, 116, 46, 97>>]),
      NewFrame("StreamMoney", [streamId |-> 1, shares |-> 1]),
      NewFrame("StreamMaxMoney", [streamId |-> 3, receiveMax |-> 256,
                                      totalReceived |-> 255]),
      NewFrame("StreamData", [streamId |-> 2, offset |-> 3,
                                  data |-> DataSamples[3]]),
      NewFrame("StreamClose", [streamId |-> 1, errorCode |-> "NoError",
                                   errorMessage |-> <<>>]) }

\* Frames this codec has no class for: type 0xFE without and with contents,
\* Padding, ConnectionAssetDetails ('ABC', 255) and StreamReceipt.
ForeignFrames ==
    { [type |-> 254, contents |-> <<>>],
      [type |-> 254, contents |-> LongData],
      [type |-> 0, contents |-> <<0, 0, 0>>],
      [type |-> 7, contents |-> <<3, 65, 66, 67, 255>>],
      [type |-> 23, contents |-> WriteVarUInt(1) \o WriteVarOctetString(<<9, 9>>)] }

NoForeign == [at |-> -1, type |-> -1, contents |-> <<>>]

\* The bytes a peer writes for packet p with a foreign frame after its first
\* i frames: the frame count includes it.
SpliceWriteTo(p, i, f) ==
    PacketHeader(p, Len(p.frames) + 1)
    \o FramesWriteTo(SubSeq(p.frames, 1, i))
    \o Envelope(f.type, f.contents)
    \o FramesWriteTo(SubSeq(p.frames, i + 1, Len(p.frames)))

\* ----------------------------------------------------- codec: operations
codecVars == <<packet, wire, decoded, inserted, codecStep>>

CodecIdle ==
    /\ packet = Packet(0, IlpPacketType.Prepare, 0, <<>>)
    /\ wire = <<>>
    /\ decoded = Thrown
    /\ inserted = NoForeign
    /\ codecStep = "idle"

\* packet._serialize()
Serialize ==
    /\ codecStep = "new"
    /\ wire' = PacketWriteTo(packet)
    /\ codecStep' = "serialized"
    /\ UNCHANGED <<packet, decoded, inserted>>

\* A peer serializes the packet with a foreign frame among its frames.
InsertForeignFrame(i, f) ==
    /\ codecStep = "new"
    /\ inserted' = [at |-> i, type |-> f.type, contents |-> f.contents]
    /\ wire' = SpliceWriteTo(packet, i, f)
    /\ codecStep' = "spliced"
    /\ UNCHANGED <<packet, decoded>>

\* The bytes reach the receiver with another first byte and cut after n bytes.
ForgeVersion(v, n) ==
    /\ codecStep = "serialized"
    /\ n \in 1..Len(wire)
    /\ wire' = <<v>> \o SubSeq(wire, 2, n)
    /\ codecStep' = "forged"
    /\ UNCHANGED <<packet, decoded, inserted>>

\* Packet._deserializeUnencrypted(wire)
Deserialize ==
    /\ codecStep \in {"serialized", "spliced", "forged"}
    /\ decoded' = DeserializeUnencrypted(wire)
    /\ codecStep' = "decoded"
    /\ UNCHANGED <<packet, wire, inserted>>

\* ------------------------------------------------- crypto: the primitives
\* HMAC-SHA256 and AES-256-GCM are modelled by deterministic stand-ins that
\* keep what the envelope code relies on: the digest has 32 bytes and depends
\* on key and message; the cipher is a keystream of (key, iv, position) that
\* update() continues from buffer to buffer; the tag has 16 bytes and depends
\* on key, iv and every ciphertext byte; final() fails when it differs.
IV_LENGTH == 12
AUTH_TAG_LENGTH == 16
ENCRYPTION_OVERHEAD == 28
DigestLength == 32

\* A position-weighted checksum of bytes lo..hi of b.
RECURSIVE WeighRange(_, _, _)
WeighRange(b, lo, hi) ==
    IF lo > hi THEN 0
    ELSE IF lo = hi THEN (b[lo] + 1) * ((lo % 251) + 1)
    ELSE LET mid == (lo + hi) \div 2
         IN (WeighRange(b, lo, mid) + WeighRange(b, mid + 1, hi)) % 65521

Weigh(b, acc) == (acc * 31 + WeighRange(b, 1, Len(b)) + Len(b)) % 65521

\* A second checksum of b, of other weights and another modulus.
RECURSIVE CrossRange(_, _, _)
CrossRange(b, lo, hi) ==
    IF lo > hi THEN 0
    ELSE IF lo = hi THEN (b[lo] + 3) * (((lo * 7) % 241) + 1)
    ELSE LET mid == (lo + hi) \div 2
         IN (CrossRange(b, lo, mid) + CrossRange(b, mid + 1, hi)) % 65519

CrossWeigh(b, acc) == (acc * 17 + CrossRange(b, 1, Len(b)) + Len(b)) % 65519

\* hash(preimage): SHA-256, a digest that determines the checksums.
hash(preimage) ==
    LET m == Weigh(preimage, 3)
        n == CrossWeigh(preimage, 5)
    IN [i \in 1..DigestLength |->
           CASE i = 1 -> m % 256
             [] i = 2 -> m \div 256
             [] i = 3 -> n % 256
             [] i = 4 -> n \div 256
             [] OTHER -> (m * i + n + i) % 256]

\* The block SHA-256 works on, in bytes.
HmacBlockSize == 64

\* The key HMAC works with: a key longer than a block is hashed first, and
\* the key is filled with zero bytes to a whole block, so that keys which
\* differ only by zero bytes at their end are one key.
HmacBlockKey(key) ==
    [i \in 1..HmacBlockSize |->
        IF Len(key) > HmacBlockSize
        THEN (IF i <= DigestLength THEN hash(key)[i] ELSE 0)
        ELSE (IF i <= Len(key) THEN key[i] ELSE 0)]

\* hmac(key, message): the digest determines the checksums of the message
\* and that of the block key.
hmac(key, message) ==
    LET k == Weigh(HmacBlockKey(key), 7)
        m == Weigh(message, k)
        n == CrossWeigh(message, k)
    IN [i \in 1..DigestLength |->
           CASE i = 1 -> m % 256
             [] i = 2 -> m \div 256
             [] i = 3 -> k % 256
             [] i = 4 -> k \div 256
             [] i = 5 -> n % 256
             [] i = 6 -> n \div 256
             [] OTHER -> (m + n + i * (k + 1)) % 256]

ENCRYPTION_KEY_STRING ==
    <<105, 108, 112, 95, 115, 116, 114, 101, 97, 109, 95, 101, 110, 99, 114,
      121, 112, 116, 105, 111, 110>>

\* generatePskEncryptionKey(sharedSecret)
GeneratePskEncryptionKey(sharedSecretBytes) ==
    hmac(sharedSecretBytes, ENCRYPTION_KEY_STRING)

KeyStream(key, iv, i) ==
    (key[(i % Len(key)) + 1] + iv[(i % Len(iv)) + 1] * 3 + i * 5
       + Weigh(iv, 1)) % 256

\* cipher.update(buffer) once `done` bytes have gone through the cipher.
CipherUpdate(key, iv, done, buffer) ==
    [i \in 1..Len(buffer) |-> (buffer[i] + KeyStream(key, iv, done + i)) % 256]

\* decipher.update(encrypted)
DecipherUpdate(key, iv, encrypted) ==
    [i \in 1..Len(encrypted) |->
        (encrypted[i] + 256 - KeyStream(key, iv, i)) % 256]

\* cipher.getAuthTag()
AuthTag(key, iv, ciphertext) ==
    LET t == Weigh(ciphertext, Weigh(iv, Weigh(key, 11)))
    IN [j \in 1..AUTH_TAG_LENGTH |-> (t + j * 13 + (t \div 256) * j) % 256]

\* The loop of encrypt: every buffer through cipher.update, in order.
RECURSIVE UpdateAll(_, _, _, _)
UpdateAll(key, iv, done, buffers) ==
    IF buffers = <<>> THEN <<>>
    ELSE CipherUpdate(key, iv, done, Head(buffers))
         \o UpdateAll(key, iv, done + Len(Head(buffers)), Tail(buffers))

\* ciphertext.unshift(iv, tag); Buffer.concat(ciphertext)
EnvelopeTagFirst(iv, tag, ciphertext) == tag \o iv \o ciphertext
EnvelopeOf(iv, tag, ciphertext) == iv \o tag \o ciphertext

\* encrypt(pskEncryptionKey, ...buffers) with the iv randomBytes returned.
EncryptWithKey(pskEncryptionKey, iv, buffers) ==
    LET ciphertext == UpdateAll(pskEncryptionKey, iv, 0, buffers)
        tag == AuthTag(pskEncryptionKey, iv, ciphertext)
    IN EnvelopeOf(iv, tag, ciphertext)

\* buffer.slice(from, to)
Slice(b, from, to) == SubSeq(b, from + 1, Min(to, Len(b)))

DecryptThrew == [ok |-> FALSE, val |-> <<>>]

\* The tag lengths decipher.setAuthTag takes for GCM when createDecipheriv
\* was given no authTagLength: those of NIST SP 800-38D.
GcmTagLengths == {4, 8} \cup (12..16)

\* decipher.final(): the tag set is compared with as many leading bytes of
\* the tag computed over what was deciphered.
TagVerifies(pskEncryptionKey, nonce, tag, encrypted) ==
    /\ Len(tag) \in GcmTagLengths
    /\ tag = SubSeq(AuthTag(pskEncryptionKey, nonce, encrypted), 1, Len(tag))

\* decrypt(pskEncryptionKey, data)
DecryptWithKey(pskEncryptionKey, data) ==
    IF Len(data) = 0 THEN DecryptThrew
    ELSE LET nonce == Slice(data, 0, IV_LENGTH)
             tag == Slice(data, IV_LENGTH, IV_LENGTH + AUTH_TAG_LENGTH)
             encrypted == Slice(data, IV_LENGTH + AUTH_TAG_LENGTH, Len(data))
         IN IF ~TagVerifies(pskEncryptionKey, nonce, tag, encrypted)
            THEN DecryptThrew
            ELSE [ok |-> TRUE,
                  val |-> DecipherUpdate(pskEncryptionKey, nonce, encrypted)]

\* getPskEncryptionKey(sharedSecret): pskKeyMap is keyed by the Buffer object;
\* a miss derives the key from the bytes and stores it.
GetPskEncryptionKey(map, sharedSecret) ==
    IF sharedSecret.id \in DOMAIN map
    THEN [key |-> map[sharedSecret.id], map |-> map]
    ELSE LET key == hmac(sharedSecret.bytes, ENCRYPTION_KEY_STRING)
         IN [key |-> key,
             map |-> [o \in DOMAIN map \cup {sharedSecret.id} |->
                         IF o = sharedSecret.id THEN key ELSE map[o]]]

\* encrypt(sharedSecret, ...buffers) of the memoizing crypto helper.
EncryptWithSecret(map, sharedSecret, iv, buffers) ==
    LET k == GetPskEncryptionKey(map, sharedSecret)
    IN [val |-> EncryptWithKey(k.key, iv, buffers), map |-> k.map]

\* decrypt(sharedSecret, data) of the memoizing crypto helper.
DecryptWithSecret(map, sharedSecret, data) ==
    IF Len(data) = 0 THEN [res |-> DecryptThrew, map |-> map]
    ELSE LET k == GetPskEncryptionKey(map, sharedSecret)
         IN [res |-> DecryptWithKey(k.key, data), map |-> k.map]

\* ------------------------------------------------------ crypto: the inputs
SecretSamples ==
    { [i \in 1..32 |-> i], [i \in 1..32 |-> 255 - ((i * 3) % 7)], <<7>> }

\* The Buffer objects a caller may hold for one secret: the same object
\* again, or another object with the same bytes.
SecretObjects == {1, 2}

BufferSamples == { <<>>, <<0>>, <<1, 2, 255>>, LongData }

BufferLists == UNION {[1..n -> BufferSamples] : n \in 0..MaxBuffers}

\* Values crypto.randomBytes(IV_LENGTH) may return.
IvSamples ==
    { [i \in 1..IV_LENGTH |-> 0],
      [i \in 1..IV_LENGTH |-> (i * 21) % 256],
      [i \in 1..IV_LENGTH |-> 255] }

RECURSIVE Concat(_)
Concat(buffers) ==
    IF buffers = <<>> THEN <<>> ELSE Head(buffers) \o Concat(Tail(buffers))

\* --------------------------------------------------- crypto: operations
cryptoVars == <<cryptoApi, secretBytes, plainBuffers, pskKeyMap, sealed,
                opened, cryptoStep>>

CryptoIdle ==
    /\ cryptoApi = "none"
    /\ secretBytes = <<>>
    /\ plainBuffers = <<>>
    /\ pskKeyMap = <<>>
    /\ sealed = <<>>
    /\ opened = DecryptThrew
    /\ cryptoStep = "idle"

\* encrypt(sharedSecret, ...plainBuffers) through the memoizing helper, the
\* secret held in Buffer object o.
EncryptCached(o, iv) ==
    /\ cryptoStep = "new"
    /\ cryptoApi = "memo"
    /\ LET r == EncryptWithSecret(pskKeyMap, [id |-> o, bytes |-> secretBytes],
                                  iv, plainBuffers)
       IN /\ sealed' = r.val
          /\ pskKeyMap' = r.map
    /\ cryptoStep' = "sealed"
    /\ UNCHANGED <<cryptoApi, secretBytes, plainBuffers, opened>>

\* decrypt(sharedSecret, sealed) through the memoizing helper.
DecryptCached(o) ==
    /\ cryptoStep = "sealed"
    /\ cryptoApi = "memo"
    /\ LET r == DecryptWithSecret(pskKeyMap, [id |-> o, bytes |-> secretBytes],
                                  sealed)
       IN /\ opened' = r.res
          /\ pskKeyMap' = r.map
    /\ cryptoStep' = "opened"
    /\ UNCHANGED <<cryptoApi, secretBytes, plainBuffers, sealed>>

\* encrypt(await generatePskEncryptionKey(sharedSecret), ...plainBuffers)
EncryptUncached(iv) ==
    /\ cryptoStep = "new"
    /\ cryptoApi = "plain"
    /\ sealed' = EncryptWithKey(GeneratePskEncryptionKey(secretBytes), iv,
                                plainBuffers)
    /\ cryptoStep' = "sealed"
    /\ UNCHANGED <<cryptoApi, secretBytes, plainBuffers, pskKeyMap, opened>>

\* decrypt(await generatePskEncryptionKey(sharedSecret), sealed)
DecryptUncached ==
    /\ cryptoStep = "sealed"
    /\ cryptoApi = "plain"
    /\ opened' = DecryptWithKey(GeneratePskEncryptionKey(secretBytes), sealed)
    /\ cryptoStep' = "opened"
    /\ UNCHANGED <<cryptoApi, secretBytes, plainBuffers, pskKeyMap, sealed>>

\* ------------------------------------------- crypto: decryptAndDeserialize
authVars == <<authSecret, authPlain, authSent, authReceived, authAltered,
              authOpenSecret, authOpened, authPacket, authStep>>

AuthIdle ==
    /\ authSecret = <<>>
    /\ authPlain = <<>>
    /\ authSent = <<>>
    /\ authReceived = <<>>
    /\ authAltered = "none"
    /\ authOpenSecret = <<>>
    /\ authOpened = DecryptThrew
    /\ authPacket = Thrown
    /\ authStep = "idle"

\* Packet.decryptAndDeserialize(sharedSecret, buffer): whatever decrypt
\* throws is thrown on; what it returns is deserialized.
DeserializeOpened(r) ==
    [opened |-> r.res,
     packet |-> IF ~r.res.ok THEN Thrown ELSE DeserializeUnencrypted(r.res.val),
     map |-> r.map]

DecryptAndDeserialize(map, sharedSecret, buffer) ==
    DeserializeOpened(DecryptWithSecret(map, sharedSecret, buffer))

\* The part of the envelope byte i (from 1) belongs to.
EnvelopePart(i) ==
    IF i <= IV_LENGTH THEN "iv"
    ELSE IF i <= IV_LENGTH + AUTH_TAG_LENGTH THEN "tag"
    ELSE "ciphertext"

\* The sender's encrypt(sharedSecret, authPlain).
Seal(iv) ==
    /\ authStep = "new"
    /\ LET r == EncryptWithSecret(pskKeyMap, [id |-> 1, bytes |-> authSecret],
                                  iv, <<authPlain>>)
       IN /\ authSent' = r.val
          /\ authReceived' = r.val
          /\ pskKeyMap' = r.map
    /\ authStep' = "sealed"
    /\ UNCHANGED <<authSecret, authPlain, authAltered, authOpenSecret,
                   authOpened, authPacket>>

\* One byte of the blob is changed on the way.
AlterByte(i, d) ==
    /\ authStep = "sealed"
    /\ i \in 1..Len(authSent)
    /\ authReceived' = [authSent EXCEPT ![i] = (@ + d) % 256]
    /\ authAltered' = EnvelopePart(i)
    /\ authStep' = "altered"
    /\ UNCHANGED <<authSecret, authPlain, authSent, authOpenSecret, authOpened,
                   authPacket, pskKeyMap>>

\* Only the first n bytes of the blob arrive.
Truncate(n) ==
    /\ authStep = "sealed"
    /\ n < Len(authSent)
    /\ n < ENCRYPTION_OVERHEAD
    /\ authReceived' = SubSeq(authSent, 1, n)
    /\ authAltered' = "short"
    /\ authStep' = "altered"
    /\ UNCHANGED <<authSecret, authPlain, authSent, authOpenSecret, authOpened,
                   authPacket, pskKeyMap>>

\* The receiver holds another secret than the sender.
OtherSecret(secret) ==
    /\ authStep = "sealed"
    /\ secret # authSecret
    /\ authOpenSecret' = secret
    /\ authAltered' = "key"
    /\ authStep' = "altered"
    /\ UNCHANGED <<authSecret, authPlain, authSent, authReceived, authOpened,
                   authPacket, pskKeyMap>>

\* Packet.decryptAndDeserialize(authOpenSecret, authReceived)
Open ==
    /\ authStep \in {"sealed", "altered"}
    /\ LET r == DecryptAndDeserialize(pskKeyMap,
                    [id |-> 2, bytes |-> authOpenSecret], authReceived)
       IN /\ authOpened' = r.opened
          /\ authPacket' = r.packet
          /\ pskKeyMap' = r.map
    /\ authStep' = "opened"
    /\ UNCHANGED <<authSecret, authPlain, authSent, authReceived, authAltered,
                   authOpenSecret>>

\* --------------------------------------------- crypto: serializeAndEncrypt
MaxPadSize == 96

ZERO_BYTES == [i \in 1..32 |-> 0]

\* a % b of JavaScript: the remainder has the sign of the dividend.
Remainder(a, b) == IF a >= 0 THEN a % b ELSE -((-a) % b)

\* buffer.slice(0, end): a negative end counts from the end of the buffer.
SliceTo(b, end) ==
    SubSeq(b, 1, IF end < 0 THEN Max(Len(b) + end, 0) ELSE Min(end, Len(b)))

\* The buffers serializeAndEncrypt appends for a padding size: a ZERO_BYTES for
\* every i below Math.floor(paddingSize / 32), then the slice of ZERO_BYTES
\* up to paddingSize % 32.
PaddingBuffers(paddingSize) ==
    [i \in 1..Max(paddingSize \div 32, 0) |-> ZERO_BYTES]
    \o <<SliceTo(ZERO_BYTES, Remainder(paddingSize, 32))>>

NoPadding == [defined |-> FALSE, size |-> 0]
PadTo(size) == [defined |-> TRUE, size |-> size]

\* packet.byteLength()
ByteLength(p) == Len(PacketWriteTo(p)) + ENCRYPTION_OVERHEAD

\* packet.serializeAndEncrypt(sharedSecret, padPacketToSize)
SerializeAndEncryptPaddingFirst(map, sharedSecret, iv, p, padPacketToSize) ==
    EncryptWithSecret(map, sharedSecret, iv,
        (IF padPacketToSize.defined
         THEN PaddingBuffers(padPacketToSize.size - ByteLength(p))
         ELSE <<>>) \o <<PacketWriteTo(p)>>)
SerializeAndEncrypt(map, sharedSecret, iv, p, padPacketToSize) ==
    IF padPacketToSize.defined
    THEN EncryptWithSecret(map, sharedSecret, iv,
             <<PacketWriteTo(p)>>
             \o PaddingBuffers(padPacketToSize.size - ENCRYPTION_OVERHEAD
                               - Len(PacketWriteTo(p))))
    ELSE EncryptWithSecret(map, sharedSecret, iv, <<PacketWriteTo(p)>>)

padVars == <<padding>>

PadIdle == padding = NoPadding

\* The sender's packet.serializeAndEncrypt(authSecret, padPacketToSize).
SealPacket(iv, padPacketToSize) ==
    /\ authStep = "new"
    /\ LET r == SerializeAndEncrypt(pskKeyMap,
                    [id |-> 1, bytes |-> authSecret], iv, packet,
                    padPacketToSize)
       IN /\ authSent' = r.val
          /\ authReceived' = r.val
          /\ pskKeyMap' = r.map
    /\ padding' = padPacketToSize
    /\ authStep' = "sealed"
    /\ UNCHANGED <<authSecret, authPlain, authAltered, authOpenSecret,
                   authOpened, authPacket>>

\* --------------------------------------------- crypto: the fulfillment
FULFILLMENT_GENERATION_STRING ==
    <<105, 108, 112, 95, 115, 116, 114, 101, 97, 109, 95, 102, 117, 108, 102,
      105, 108, 108, 109, 101, 110, 116>>

\* generateFulfillmentKey(sharedSecret)
GenerateFulfillmentKey(sharedSecretBytes) ==
    hmac(sharedSecretBytes, FULFILLMENT_GENERATION_STRING)

\* generateFulfillment(fulfillmentKey, data)
FulfillmentOfKeyAlone(fulfillmentKey, data) == hmac(fulfillmentKey, <<>>)
FulfillmentOf(fulfillmentKey, data) == hmac(fulfillmentKey, data)

\* generateFulfillment(sharedSecret, data) of the memoizing crypto helper:
\* fulfillmentKeyMap is keyed by the Buffer object.
GenerateFulfillment(map, sharedSecret, data) ==
    IF sharedSecret.id \in DOMAIN map
    THEN [val |-> FulfillmentOf(map[sharedSecret.id], data), map |-> map]
    ELSE [val |-> FulfillmentOf(GenerateFulfillmentKey(sharedSecret.bytes), data),
          map |-> [o \in DOMAIN map \cup {sharedSecret.id} |->
                      IF o = sharedSecret.id
                      THEN GenerateFulfillmentKey(sharedSecret.bytes)
                      ELSE map[o]]]

fulfillVars == <<fulfillSecret, fulfillData, fulfillCondition,
                 fulfillOpenSecret, fulfillReceived, fulfillments,
                 fulfillmentKeyMap, fulfillStep>>

FulfillIdle ==
    /\ fulfillSecret = <<>>
    /\ fulfillData = <<>>
    /\ fulfillCondition = <<>>
    /\ fulfillOpenSecret = <<>>
    /\ fulfillReceived = <<>>
    /\ fulfillments = <<>>
    /\ fulfillmentKeyMap = <<>>
    /\ fulfillStep = "idle"

\* The sender's Buffer objects are 1 and 2, the receiver's 3 and 4.
ReceiverObject(o) == o + 2

\* The sender builds the Prepare: condition = hash(fulfillment of the data).
SendPrepare(o) ==
    /\ fulfillStep = "new"
    /\ LET r == GenerateFulfillment(fulfillmentKeyMap,
                    [id |-> o, bytes |-> fulfillSecret], fulfillData)
       IN /\ fulfillCondition' = hash(r.val)
          /\ fulfillmentKeyMap' = r.map
    /\ fulfillStep' = "prepared"
    /\ UNCHANGED <<fulfillSecret, fulfillData, fulfillOpenSecret,
                   fulfillReceived, fulfillments>>

\* The Prepare arrives with the data the sender put in it.
ArriveIntact ==
    /\ fulfillStep = "prepared"
    /\ fulfillReceived' = fulfillData
    /\ fulfillStep' = "received"
    /\ UNCHANGED <<fulfillSecret, fulfillData, fulfillCondition,
                   fulfillOpenSecret, fulfillments, fulfillmentKeyMap>>

\* The Prepare arrives with one byte of its data changed.
ArriveChanged(i, d) ==
    /\ fulfillStep = "prepared"
    /\ i \in 1..Len(fulfillData)
    /\ fulfillReceived' = [fulfillData EXCEPT ![i] = (@ + d) % 256]
    /\ fulfillStep' = "received"
    /\ UNCHANGED <<fulfillSecret, fulfillData, fulfillCondition,
                   fulfillOpenSecret, fulfillments, fulfillmentKeyMap>>

\* The Prepare arrives with data one byte longer or shorter.
ArriveResized(grow) ==
    /\ fulfillStep = "prepared"
    /\ grow \/ fulfillData # <<>>
    /\ fulfillReceived' =
           IF grow THEN Append(fulfillData, 0)
           ELSE SubSeq(fulfillData, 1, Len(fulfillData) - 1)
    /\ fulfillStep' = "received"
    /\ UNCHANGED <<fulfillSecret, fulfillData, fulfillCondition,
                   fulfillOpenSecret, fulfillments, fulfillmentKeyMap>>

\* The receiver computes generateFulfillment(sharedSecret, received data),
\* its secret held in Buffer object o; it may do so again.
Fulfill(o) ==
    /\ fulfillStep \in {"received", "fulfilled"}
    /\ Len(fulfillments) < MaxFulfills
    /\ LET r == GenerateFulfillment(fulfillmentKeyMap,
                    [id |-> ReceiverObject(o), bytes |-> fulfillOpenSecret],
                    fulfillReceived)
       IN /\ fulfillments' = Append(fulfillments, r.val)
          /\ fulfillmentKeyMap' = r.map
    /\ fulfillStep' = "fulfilled"
    /\ UNCHANGED <<fulfillSecret, fulfillData, fulfillCondition,
                   fulfillOpenSecret, fulfillReceived>>

\* ---------------------------------------------------------- OffsetSorter
\* new OffsetDataEntry(data, offset)
OffsetDataEntry(data, offset) == [data |-> data, offset |-> offset]

\* The walk of push: the entry goes before the first entry of a greater
\* offset, or to the end of the list.
RECURSIVE InsertEntry(_, _)
InsertEntryLast(list, entry) == Append(list, entry)
InsertEntry(list, entry) ==
    IF list = <<>> THEN <<entry>>
    ELSE IF Head(list).offset > entry.offset THEN <<entry>> \o list
    ELSE <<Head(list)>> \o InsertEntry(Tail(list), entry)

\* read() returns data when the head entry starts at readOffset.
ReadableAnywhere(list, offset) == list # <<>>
Readable(list, offset) == list # <<>> /\ Head(list).offset = offset

sorterVars == <<head, readOffset, maxOffset, endOffset, original, pushLog,
                readLog, lastRead>>

\* new OffsetSorter()
SorterIdle ==
    /\ head = <<>>
    /\ readOffset = 0
    /\ maxOffset = 0
    /\ endOffset = -1
    /\ original = <<>>
    /\ pushLog = <<>>
    /\ readLog = <<>>
    /\ lastRead = "none"

\* push(data, offset): it has no throw statement.
Push(data, offset) ==
    /\ Len(pushLog) < MaxPushes
    /\ maxOffset' = Max(offset + Len(data), maxOffset)
    /\ head' = InsertEntry(head, OffsetDataEntry(data, offset))
    /\ pushLog' = Append(pushLog,
                         [data |-> data, offset |-> offset, threw |-> FALSE])
    /\ UNCHANGED <<readOffset, endOffset, original, readLog, lastRead>>

\* read()
Read ==
    /\ lastRead # "undefined" \/ Readable(head, readOffset)
    /\ IF Readable(head, readOffset)
       THEN /\ readOffset' = Head(head).offset + Len(Head(head).data)
            /\ head' = Tail(head)
            /\ readLog' = Append(readLog, Head(head))
            /\ lastRead' = "data"
       ELSE /\ lastRead' = "undefined"
            /\ UNCHANGED <<head, readOffset, readLog>>
    /\ UNCHANGED <<maxOffset, endOffset, original, pushLog>>

\* setEndOffset(offset)
SetEndOffset(offset) ==
    /\ endOffset' = offset
    /\ UNCHANGED <<head, readOffset, maxOffset, original, pushLog, readLog,
                   lastRead>>

\* byteLength(): the lengths of the entries of the list, added up.
HeadByteLength(list) == IF list = <<>> THEN 0 ELSE Len(Head(list).data)
QueuedByteLength(list) == SumSeq([i \in 1..Len(list) |-> Len(list[i].data)])

\* ---------------------------------------------------------------- receipts
RECEIPT_VERSION == 1
\* The lengths createReceipt, decodeReceipt and verifyReceipt are written with.
ReceiptLength == 58
NonceLength == 16
ReceiptSecretLength == 32
ReceiptMessageLength == 26

\* generateReceiptHMAC(secret, message)
GenerateReceiptHMACUnkeyed(secret, message) == hmac(<<>>, message)
GenerateReceiptHMAC(secret, message) == hmac(secret, message)

\* Writer.writeUInt64: eight bytes, big-endian.
WriteUInt64(n) ==
    [i \in 1..(8 - Len(UIntBytes(n))) |-> 0] \o UIntBytes(n)

\* Reader.readUInt64Long at byte position pos.
ReadUInt64LowByte(b, pos) == b[pos + 8]
ReadUInt64(b, pos) == BytesToUInt(SubSeq(b, pos + 1, pos + 8))

\* The decimal string of an unsigned integer, as character codes.
RECURSIVE ToDecimal(_)
ToDecimal(n) ==
    IF n < 10 THEN <<48 + n>> ELSE Append(ToDecimal(n \div 10), 48 + (n % 10))

ReceiptThrew(message) == [ok |-> FALSE, error |-> message, val |-> <<>>]

\* The receipt up to its HMAC: version, nonce, stream id, totalReceived.
ReceiptBody(opts) ==
    WriteUInt8(RECEIPT_VERSION) \o opts.nonce \o WriteUInt8(opts.streamId)
    \o WriteUInt64(opts.totalReceived)

\* createReceipt(opts)
CreateReceiptSecretFirst(opts) ==
    IF Len(opts.secret) # ReceiptSecretLength
    THEN ReceiptThrew("receipt secret must be 32 bytes")
    ELSE IF Len(opts.nonce) # NonceLength
    THEN ReceiptThrew("receipt nonce must be 16 bytes")
    ELSE [ok |-> TRUE, error |-> "",
          val |-> ReceiptBody(opts)
                  \o GenerateReceiptHMAC(opts.secret, ReceiptBody(opts))]
CreateReceipt(opts) ==
    IF Len(opts.nonce) # NonceLength
    THEN ReceiptThrew("receipt nonce must be 16 bytes")
    ELSE IF Len(opts.secret) # ReceiptSecretLength
    THEN ReceiptThrew("receipt secret must be 32 bytes")
    ELSE [ok |-> TRUE, error |-> "",
          val |-> ReceiptBody(opts)
                  \o GenerateReceiptHMAC(opts.secret, ReceiptBody(opts))]

NoReceipt == [version |-> 0, nonce |-> <<>>, streamId |-> <<>>,
              totalReceived |-> 0]

\* decodeReceipt(receipt): streamId comes back as the decimal string that
\* Reader.readUInt8 returns.
DecodeReceipt(blob) ==
    IF Len(blob) # ReceiptLength
    THEN [ok |-> FALSE, error |-> "receipt must be 58 bytes", val |-> NoReceipt]
    ELSE [ok |-> TRUE, error |-> "",
          val |-> [version |-> blob[1],
                   nonce |-> SubSeq(blob, 2, 1 + NonceLength),
                   streamId |-> ToDecimal(blob[2 + NonceLength]),
                   totalReceived |-> ReadUInt64(blob, 2 + NonceLength)]]

\* verifyReceipt(receipt, secret): it returns, it has nothing that throws.
VerifyReceiptUnsigned(blob, secret) ==
    [threw |-> FALSE,
     val |-> Len(blob) = ReceiptLength /\ blob[1] = RECEIPT_VERSION]
VerifyReceipt(blob, secret) ==
    [threw |-> FALSE,
     val |-> IF Len(blob) # ReceiptLength THEN FALSE
             ELSE IF blob[1] # RECEIPT_VERSION THEN FALSE
             ELSE Slice(blob, ReceiptMessageLength, Len(blob))
                  = GenerateReceiptHMAC(secret,
                        Slice(blob, 0, ReceiptMessageLength))]

receiptVars == <<receiptOpts, created, presented, verifySecret, verified,
                 decodedReceipt, receiptStep>>

NoOpts == [nonce |-> <<>>, streamId |-> 0, totalReceived |-> 0, secret |-> <<>>]

ReceiptIdle ==
    /\ receiptOpts = NoOpts
    /\ created = ReceiptThrew("")
    /\ presented = <<>>
    /\ verifySecret = <<>>
    /\ verified = [threw |-> FALSE, val |-> FALSE]
    /\ decodedReceipt = [ok |-> FALSE, error |-> "", val |-> NoReceipt]
    /\ receiptStep = "idle"

\* createReceipt(receiptOpts); the receipt it returns is what is presented.
Create ==
    /\ receiptStep = "new"
    /\ created' = CreateReceipt(receiptOpts)
    /\ presented' = CreateReceipt(receiptOpts).val
    /\ receiptStep' = "created"
    /\ UNCHANGED <<receiptOpts, verifySecret, verified, decodedReceipt>>

\* The receipt is presented with one byte changed.
PresentChanged(i, d) ==
    /\ receiptStep = "created"
    /\ created.ok
    /\ i \in 1..Len(created.val)
    /\ presented' = [created.val EXCEPT ![i] = (@ + d) % 256]
    /\ receiptStep' = "changed"
    /\ UNCHANGED <<receiptOpts, created, verifySecret, verified, decodedReceipt>>

\* The receipt is presented cut to n bytes, or zero-filled up to n bytes.
PresentResized(n) ==
    /\ receiptStep = "created"
    /\ n # Len(created.val)
    /\ presented' = [i \in 1..n |-> IF i <= Len(created.val)
                                    THEN created.val[i] ELSE 0]
    /\ receiptStep' = "foreign"
    /\ UNCHANGED <<receiptOpts, created, verifySecret, verified, decodedReceipt>>

\* verifyReceipt(presented, secret)
Verify(secret) ==
    /\ receiptStep \in {"created", "changed", "foreign"}
    /\ verifySecret' = secret
    /\ verified' = VerifyReceipt(presented, secret)
    /\ receiptStep' = "verified"
    /\ UNCHANGED <<receiptOpts, created, presented, decodedReceipt>>

\* decodeReceipt(presented)
Decode ==
    /\ receiptStep \in {"created", "foreign"}
    /\ decodedReceipt' = DecodeReceipt(presented)
    /\ receiptStep' = "decoded"
    /\ UNCHANGED <<receiptOpts, created, presented, verifySecret, verified>>

\* ============================================================== the server
\* Text is a sequence of character codes; Buffer.from(text, 'ascii') of text
\* in the ASCII range is the same sequence.
Dot == 46
Tilde == 126

\* What `undefined + '.'` starts with: the text of an unset serverAccount.
UndefinedText == <<117, 110, 100, 101, 102, 105, 110, 101, 100>>

\* str.indexOf(pat), counted from 1; 0 when pat does not occur.
IndexOf(str, pat) ==
    LET at == {i \in 1..(Len(str) - Len(pat) + 1) :
                  SubSeq(str, i, i + Len(pat) - 1) = pat}
    IN IF at = {} THEN 0 ELSE CHOOSE i \in at : \A j \in at : i <= j

\* str.replace(pat, ''): the first occurrence of the text pat is removed.
ReplaceFirst(str, pat) ==
    LET i == IndexOf(str, pat)
    IN IF i = 0 THEN str
       ELSE SubSeq(str, 1, i - 1) \o SubSeq(str, i + Len(pat), Len(str))

\* str.split('.'): never empty; the split of '' is [''].
RECURSIVE Split(_)
Split(str) ==
    LET i == IndexOf(str, <<Dot>>)
    IN IF i = 0 THEN <<str>>
       ELSE <<SubSeq(str, 1, i - 1)>> \o Split(SubSeq(str, i + 1, Len(str)))

\* CONNECTION_ID_REGEX.test(text): one or more of a-z, A-Z, 0-9, ~, _, -.
ConnectionIdChars == (97..122) \cup (65..90) \cup (48..57) \cup {Tilde, 95, 45}
ConnectionIdUnanchored(text) == \E i \in 1..Len(text) : text[i] \in ConnectionIdChars
CONNECTION_ID_REGEX(text) ==
    /\ text # <<>>
    /\ \A i \in 1..Len(text) : text[i] \in ConnectionIdChars

\* buffer.toString('base64'): three bytes give four characters of the
\* alphabet A-Z a-z 0-9 + /, a last group of one or two bytes is padded
\* with '='.
Base64Char(n) ==
    IF n < 26 THEN 65 + n
    ELSE IF n < 52 THEN 97 + (n - 26)
    ELSE IF n < 62 THEN 48 + (n - 52)
    ELSE IF n = 62 THEN 43 ELSE 47

RECURSIVE Base64(_, _)
Base64(b, i) ==
    IF i > Len(b) THEN <<>>
    ELSE LET n == Min(3, Len(b) - i + 1)
             v == b[i] * 65536
                  + (IF n >= 2 THEN b[i + 1] * 256 ELSE 0)
                  + (IF n = 3 THEN b[i + 2] ELSE 0)
         IN <<Base64Char(v \div 262144),
              Base64Char((v \div 4096) % 64),
              IF n >= 2 THEN Base64Char((v \div 64) % 64) ELSE 61,
              IF n = 3 THEN Base64Char(v % 64) ELSE 61>>
            \o Base64(b, i + 3)

\* base64url(buffer): the padding is dropped, '+' becomes '-', '/' becomes '_'.
RECURSIVE StripPadding(_)
StripPadding(text) ==
    IF text # <<>> /\ text[Len(text)] = 61
    THEN StripPadding(SubSeq(text, 1, Len(text) - 1))
    ELSE text

base64url(buffer) ==
    LET text == StripPadding(Base64(buffer, 1))
    IN [i \in 1..Len(text) |->
           IF text[i] = 43 THEN 45
           ELSE IF text[i] = 47 THEN 95 ELSE text[i]]

TOKEN_LENGTH == 18

SHARED_SECRET_GENERATION_STRING ==
    <<105, 108, 112, 95, 115, 116, 114, 101, 97, 109, 95, 115, 104, 97, 114,
      101, 100, 95, 115, 101, 99, 114, 101, 116>>

\* generateSharedSecretFromToken(seed, token); the memo is keyed by the
\* Buffer object and every caller here passes a new Buffer.
GenerateSharedSecretFromToken(seed, token) ==
    hmac(hmac(seed, SHARED_SECRET_GENERATION_STRING), token)

\* ------------------------------------------- server: address and secret
NotConnectedError == "Server must be connected to generate address and secret"
ConnectionTagError ==
    "connectionTag can only include ASCII characters a-z, A-Z, 0-9, \"_\", \"-\", and \"~\""

GenerateThrew(message) ==
    [ok |-> FALSE, error |-> message, destinationAccount |-> <<>>,
     sharedSecret |-> <<>>, token |-> <<>>]

\* The token once the tag has been validated and appended; no token when
\* the tag is refused.
TokenWithTag(random, connectionTag) ==
    IF connectionTag # <<>>
    THEN IF ~CONNECTION_ID_REGEX(connectionTag) THEN <<>>
         ELSE base64url(random) \o <<Tilde>> \o connectionTag
    ELSE base64url(random)

\* `${this.serverAccount}.${token}`
DestinationAccount(account, token) == account \o <<Dot>> \o token

AddressAndSecret(secret, account, token) ==
    IF token = <<>> THEN GenerateThrew(ConnectionTagError)
    ELSE [ok |-> TRUE, error |-> "",
          destinationAccount |-> DestinationAccount(account, token),
          sharedSecret |-> GenerateSharedSecretFromToken(secret, token),
          token |-> token]

\* server.generateAddressAndSecret(connectionTag); random is what
\* generateToken() returned, an absent tag is the empty text.
GenerateAddressAndSecretAnyTime(isConnected, secret, account, random, connectionTag) ==
    AddressAndSecret(secret, account, TokenWithTag(random, connectionTag))
GenerateAddressAndSecret(isConnected, secret, account, random, connectionTag) ==
    IF ~isConnected THEN GenerateThrew(NotConnectedError)
    ELSE AddressAndSecret(secret, account, TokenWithTag(random, connectionTag))

\* ------------------------------------------------- server: handleData
\* An ILP Prepare on the wire: the type byte 12, then as one var octet string
\* the amount (8 bytes), the expiry (17) and the condition (32), followed by
\* the destination and the data, each a var octet string.
IlpPrepareType == 12
IlpPrepareHeader == [i \in 1..57 |-> 0]

SerializeIlpPrepare(destination, data) ==
    <<IlpPrepareType>>
    \o WriteVarOctetString(IlpPrepareHeader \o WriteVarOctetString(destination)
                           \o WriteVarOctetString(data))

NotAPrepare == [ok |-> FALSE, destination |-> <<>>, data |-> <<>>]

PrepareData(destination, d) ==
    IF ~d.ok THEN NotAPrepare
    ELSE [ok |-> TRUE, destination |-> destination, data |-> d.val]

PrepareDestination(c, destination) ==
    IF ~destination.ok THEN NotAPrepare
    ELSE PrepareData(destination.val, ReadVarOctetString(c, destination.pos))

PrepareContents(contents) ==
    IF ~contents.ok \/ Len(contents.val) < Len(IlpPrepareHeader)
    THEN NotAPrepare
    ELSE PrepareDestination(contents.val,
             ReadVarOctetString(contents.val, Len(IlpPrepareHeader)))

\* IlpPacket.deserializeIlpPrepare(data): throws unless the data is a Prepare.
DeserializeIlpPrepare(data) ==
    IF data = <<>> \/ data[1] # IlpPrepareType THEN NotAPrepare
    ELSE PrepareContents(ReadVarOctetString(data, 1))

\* prepare.destination.replace(this.serverAccount + '.', '').split('.')
LocalAddressParts(account, destination) ==
    Split(ReplaceFirst(destination, account \o <<Dot>>))

\* The connection id: the first of the local address parts.
ConnectionIdLast(parts) == parts[Len(parts)]
ConnectionId(parts) == parts[1]

\* Errors thrown while a Prepare is handled: an ILP error carries its code
\* and message and may carry data, any other error carries none of them.
\* ilpErrorData is <<>> when the error has none and <<buffer>> when it has.
UnreachableError(message) ==
    [ilpErrorCode |-> "F02", ilpErrorMessage |-> message, ilpErrorData |-> <<>>]
TypeError == [ilpErrorCode |-> "", ilpErrorMessage |-> "", ilpErrorData |-> <<>>]

\* The Reject handleData answers an error with: err.ilpErrorCode || 'F00',
\* err.ilpErrorMessage || '', err.ilpErrorData || Buffer.alloc(0).
RejectFor(err) ==
    [code |-> IF err.ilpErrorCode # "" THEN err.ilpErrorCode ELSE "F00",
     message |-> err.ilpErrorMessage,
     data |-> IF err.ilpErrorData = <<>> THEN <<>> ELSE err.ilpErrorData[1]]

\* The message of the Reject for data that is not a Prepare names data[0].
NotPrepareMessage(data) ==
    "Expected an ILP Prepare packet (type 12), but got packet with type: "
    \o (IF data = <<>> THEN "undefined" ELSE ToString(data[1]))

\* The answer to data that is not a Prepare: a Reject with code F00 that is
\* triggered by the server's account. serializeIlpReject throws when the
\* account is still undefined, and what it throws is answered as any other
\* error is.
NotPrepareRejectUncaught(account, data) ==
    IF account = UndefinedText
    THEN [kind |-> "threw", code |-> "", message |-> "", data |-> <<>>]
    ELSE [kind |-> "reject", code |-> "F00",
          message |-> NotPrepareMessage(data), data |-> <<>>]
NotPrepareReject(account, data) ==
    IF account = UndefinedText
    THEN [kind |-> "reject"] @@ RejectFor(TypeError)
    ELSE [kind |-> "reject", code |-> "F00",
          message |-> NotPrepareMessage(data), data |-> <<>>]

\* ------------------------------------------------ server: the connection pool
\* The pool maps a connection id to its Connection and remembers the ids of
\* the connections that closed. made counts the pools built so far: 0 until
\* the first listen() has built one.
NoPool == [made |-> 0, active |-> {}, closed |-> {}]
NewPool(previous) == [made |-> previous.made + 1, active |-> {}, closed |-> {}]

\* The Prepare data decrypts under the secret derived from the connection id.
Decrypts(sharedSecret, data) ==
    DecryptWithKey(GeneratePskEncryptionKey(sharedSecret), data).ok

\* pool.getConnection(id, prepare): the active connection of that id; no
\* connection for the id of a closed one; otherwise a new connection when
\* the Prepare decrypts under the secret derived from the id. derived is
\* that secret and decrypts tells whether the Prepare's data decrypts under
\* it.
GetConnectionUnverified(p, conns, id, derived, decrypts) ==
    LET found == {i \in p.active : conns[i].id = id}
    IN IF found # {}
       THEN [kind |-> "active", conn |-> CHOOSE i \in found : TRUE,
             sharedSecret |-> <<>>]
       ELSE IF id \in p.closed
       THEN [kind |-> "threw", conn |-> 0, sharedSecret |-> <<>>]
       ELSE [kind |-> "new", conn |-> Len(conns) + 1, sharedSecret |-> derived]
GetConnection(p, conns, id, derived, decrypts) ==
    LET found == {i \in p.active : conns[i].id = id}
    IN IF found # {}
       THEN [kind |-> "active", conn |-> CHOOSE i \in found : TRUE,
             sharedSecret |-> <<>>]
       ELSE IF id \in p.closed
       THEN [kind |-> "threw", conn |-> 0, sharedSecret |-> <<>>]
       ELSE IF ~decrypts
       THEN [kind |-> "threw", conn |-> 0, sharedSecret |-> derived]
       ELSE [kind |-> "new", conn |-> Len(conns) + 1, sharedSecret |-> derived]

\* ------------------------------------------------------ server: its state
serverVars == <<serverConnected, pluginConnected, dataHandler, serverAccount,
                pool, listening, accepts, listeners, announced, issued,
                generated, served, generating, handling, closePc,
                closeSnapshot, disconnectCalls, closeTrace, closedTokens,
                lifecycle, calls>>

\* The calls of acceptConnection() followed, and the callers of listen():
\* 0 is the application, the others are the acceptConnection() calls.
Accepts == 1..MaxAccepts
Callers == 0..MaxAccepts

\* The secret the server was built with and the address ILDCP gives it.
ServerSecret == [i \in 1..32 |-> 0]
IldcpAddress == <<103, 46, 115>>

NoAccept == [pc |-> "idle", result |-> 0, waitFrom |-> 0, closedDuring |-> FALSE]
NotGenerated ==
    [called |-> FALSE, connected |-> FALSE, lifecycle |-> "new",
     connectionTag |-> <<>>, random |-> <<>>, account |-> <<>>,
     result |-> GenerateThrew(""), data |-> <<>>]
NotServed ==
    [handled |-> FALSE, kind |-> "none", code |-> "", message |-> "",
     data |-> <<>>, errorCode |-> "", decoded |-> FALSE,
     connectionId |-> <<>>, sharedSecret |-> <<>>, created |-> FALSE,
     credential |-> 0, alteration |-> "none", account |-> <<>>,
     announcedBefore |-> 0, derived |-> <<>>, decrypts |-> FALSE,
     pool |-> 0, endedBefore |-> FALSE, dispatched |-> FALSE]

\* A step of another call settles no generateAddressAndSecret and answers no
\* Prepare, and leaves those that wait as they are.
NothingGenerated == generated' = NotGenerated /\ UNCHANGED generating
NothingServed == served' = NotServed /\ UNCHANGED handling

ServerIdle ==
    /\ serverConnected = FALSE
    /\ pluginConnected = FALSE
    /\ dataHandler = FALSE
    /\ serverAccount = UndefinedText
    /\ pool = NoPool
    /\ listening = [c \in Callers |-> "none"]
    /\ accepts = [a \in Accepts |-> NoAccept]
    /\ listeners = [connection |-> {}, close |-> {}]
    /\ announced = <<>>
    /\ issued = <<>>
    /\ generated = NotGenerated
    /\ served = NotServed
    /\ generating = NotGenerated
    /\ handling = NotServed
    /\ closePc = "none"
    /\ closeSnapshot = {}
    /\ disconnectCalls = 0
    /\ closeTrace = <<>>
    /\ closedTokens = {}
    /\ lifecycle = "new"
    /\ calls = [lifecycle |-> 0, generate |-> 0, prepare |-> 0]

\* ------------------------------------------------------- server: listen()
\* listen() up to its first await: nothing to do when the server and the
\* plugin are connected; otherwise the data handler is registered and
\* plugin.connect() is awaited.
ListenEntered == IF serverConnected /\ pluginConnected THEN "returned" ELSE "connecting"

Listen ==
    /\ listening[0] = "none"
    /\ calls.lifecycle < MaxCalls
    /\ ~(serverConnected /\ pluginConnected)
    /\ listening' = [listening EXCEPT ![0] = "connecting"]
    /\ dataHandler' = TRUE
    /\ calls' = [calls EXCEPT !.lifecycle = @ + 1]
    /\ UNCHANGED <<serverConnected, pluginConnected, serverAccount, pool,
                   accepts, listeners, announced, issued, closePc,
                   closeSnapshot, disconnectCalls, closeTrace, closedTokens,
                   lifecycle>>
    /\ NothingGenerated
    /\ NothingServed

\* plugin.connect() resolved: ILDCP.fetch is awaited.
ListenConnected(c) ==
    /\ listening[c] = "connecting"
    /\ pluginConnected' = TRUE
    /\ listening' = [listening EXCEPT ![c] = "fetching"]
    /\ UNCHANGED <<serverConnected, dataHandler, serverAccount, pool, accepts,
                   listeners, announced, issued, closePc, closeSnapshot,
                   disconnectCalls, closeTrace, closedTokens, lifecycle,
                   calls>>
    /\ NothingGenerated
    /\ NothingServed

\* ILDCP.fetch resolved: the account is set, the server is connected and a
\* new pool replaces the one it had.
ListenFetched(c) ==
    /\ listening[c] = "fetching"
    /\ serverAccount' = IldcpAddress
    /\ serverConnected' = TRUE
    /\ pool' = NewPool(pool)
    /\ lifecycle' = "up"
    /\ listening' = [listening EXCEPT ![c] = IF c = 0 THEN "none" ELSE "returned"]
    /\ UNCHANGED <<pluginConnected, dataHandler, accepts, listeners,
                   announced, issued, closePc, closeSnapshot, disconnectCalls,
                   closeTrace, closedTokens, calls>>
    /\ NothingGenerated
    /\ NothingServed

\* ------------------------------------------------ server: acceptConnection()
\* The promise of an acceptConnection() call settles once: resolve and
\* reject of a settled promise change nothing.
Settle(acc, outcome, value) ==
    IF acc.pc = "waiting" THEN [acc EXCEPT !.pc = outcome, !.result = value]
    ELSE acc

\* What emitting an event to the done callbacks S leaves registered: once()
\* takes them off the event emitted; done takes itself off both events.
DoneOnce(ls, event, S) ==
    IF event = "connection" THEN [ls EXCEPT !.connection = @ \ S]
    ELSE [ls EXCEPT !.close = @ \ S]
Done(ls, event, S) == [connection |-> ls.connection \ S, close |-> ls.close \ S]

\* acceptConnection() up to the await of its listen().
AcceptConnection(a) ==
    /\ accepts[a].pc = "idle"
    /\ \A b \in Accepts : b < a => accepts[b].pc # "idle"
    /\ calls.lifecycle < MaxCalls
    /\ calls' = [calls EXCEPT !.lifecycle = @ + 1]
    /\ accepts' = [accepts EXCEPT ![a].pc = "listening"]
    /\ listening' = [listening EXCEPT ![a] = ListenEntered]
    /\ dataHandler' = (dataHandler \/ ListenEntered = "connecting")
    /\ UNCHANGED <<serverConnected, pluginConnected, serverAccount, pool,
                   listeners, announced, issued, closePc, closeSnapshot,
                   disconnectCalls, closeTrace, closedTokens, lifecycle>>
    /\ NothingGenerated
    /\ NothingServed

\* Its listen() has resolved: done is registered once for 'connection' and
\* once for '_close'.
AcceptRegister(a) ==
    /\ accepts[a].pc = "listening"
    /\ listening[a] = "returned"
    /\ listening' = [listening EXCEPT ![a] = "none"]
    /\ accepts' = [accepts EXCEPT ![a].pc = "waiting",
                                  ![a].waitFrom = Len(announced)]
    /\ listeners' = [connection |-> listeners.connection \cup {a},
                     close |-> listeners.close \cup {a}]
    /\ UNCHANGED <<serverConnected, pluginConnected, dataHandler,
                   serverAccount, pool, announced, issued, closePc,
                   closeSnapshot, disconnectCalls, closeTrace, closedTokens,
                   lifecycle, calls>>
    /\ NothingGenerated
    /\ NothingServed

\* ---------------------------------------- server: generateAddressAndSecret()
\* The first Prepare a client builds with an address and secret: its data is
\* encrypted under the secret.
ClientIv == [i \in 1..IV_LENGTH |-> (i * 21) % 256]
ClientPlain == <<1, 12, 1, 0, 0>>
ClientData(sharedSecret) ==
    EncryptWithKey(GeneratePskEncryptionKey(sharedSecret), ClientIv, <<ClientPlain>>)

\* generateAddressAndSecret(connectionTag) up to its await: it throws when
\* the server is not connected or the tag is refused; otherwise the token is
\* made, the shared secret is derived and its promise is awaited.
Generate(random, connectionTag) ==
    LET r == GenerateAddressAndSecret(serverConnected, ServerSecret,
                                      serverAccount, random, connectionTag)
        call == [called |-> TRUE, connected |-> serverConnected,
                 lifecycle |-> lifecycle,
                 connectionTag |-> connectionTag, random |-> random,
                 account |-> serverAccount, result |-> r,
                 data |-> IF r.ok THEN ClientData(r.sharedSecret) ELSE <<>>]
    IN /\ calls.generate < MaxGenerates
       /\ generating = NotGenerated
       /\ calls' = [calls EXCEPT !.generate = @ + 1]
       /\ r.ok => \A i \in 1..Len(issued) : issued[i].token # r.token
       /\ IF r.ok
          THEN generating' = call /\ generated' = NotGenerated
          ELSE generated' = call /\ UNCHANGED generating
       /\ UNCHANGED <<serverConnected, pluginConnected, dataHandler,
                      serverAccount, pool, listening, accepts, listeners,
                      announced, issued, closePc, closeSnapshot,
                      disconnectCalls, closeTrace, closedTokens, lifecycle>>
       /\ NothingServed

\* The shared secret has come: the address is built on the account the
\* server has now and returned with the secret.
GenerateReturn ==
    /\ generating.called
    /\ generated' =
         [generating EXCEPT
             !.account = serverAccount,
             !.result.destinationAccount =
                 DestinationAccount(serverAccount, generating.result.token)]
    /\ generating' = NotGenerated
    /\ issued' = Append(issued,
                        [destinationAccount |->
                             DestinationAccount(serverAccount,
                                                generating.result.token),
                         sharedSecret |-> generating.result.sharedSecret,
                         token |-> generating.result.token,
                         account |-> serverAccount,
                         data |-> generating.data])
    /\ UNCHANGED <<serverConnected, pluginConnected, dataHandler,
                   serverAccount, pool, listening, accepts, listeners,
                   announced, closePc, closeSnapshot, disconnectCalls,
                   closeTrace, closedTokens, lifecycle, calls>>
    /\ NothingServed

\* ------------------------------------------------- server: handleData()
\* The Prepares that reach the server: a client's, addressed as it was told
\* or otherwise, and a stranger's, addressed to the server alone.
Alterations == {"none", "segment", "append", "bare", "dot"}
Appended == <<52, 53, 54>>
Segment == <<Dot, 120>>

AddressedTo(c, alteration) ==
    CASE alteration = "none" -> c.destinationAccount
      [] alteration = "segment" -> c.destinationAccount \o Segment
      [] alteration = "append" -> c.destinationAccount \o Appended
      [] alteration = "bare" -> c.account
      [] alteration = "dot" -> c.account \o <<Dot>>

Stranger == [destinationAccount |-> IldcpAddress, account |-> IldcpAddress,
             data |-> <<>>]

PrepareOf(credential, alteration) ==
    LET c == IF credential = 0 THEN Stranger ELSE issued[credential]
    IN [packet |-> SerializeIlpPrepare(AddressedTo(c, alteration), c.data),
        credential |-> credential, alteration |-> alteration]

\* Data that is not a Prepare: nothing, a Fulfill, and a Prepare cut short.
RawSamples == { <<>>, <<13, 0>>, <<IlpPrepareType, 1, 7>> }

RawData(bytes) == [packet |-> bytes, credential |-> 0, alteration |-> "raw"]

Undecoded(p) ==
    LET r == NotPrepareReject(serverAccount, p.packet) IN
    [handled |-> TRUE, kind |-> r.kind, code |-> r.code,
     message |-> r.message, data |-> r.data, errorCode |-> "",
     decoded |-> FALSE, connectionId |-> <<>>, sharedSecret |-> <<>>,
     created |-> FALSE, credential |-> p.credential,
     alteration |-> p.alteration, account |-> serverAccount,
     announcedBefore |-> Len(announced), derived |-> <<>>,
     decrypts |-> FALSE, pool |-> pool.made, endedBefore |-> FALSE,
     dispatched |-> FALSE]

Rejected(p, err, id, secret) ==
    [handled |-> TRUE, kind |-> "reject", code |-> RejectFor(err).code,
     message |-> RejectFor(err).message, data |-> RejectFor(err).data,
     errorCode |-> err.ilpErrorCode, decoded |-> TRUE,
     connectionId |-> id,
     sharedSecret |-> secret, created |-> FALSE, credential |-> p.credential,
     alteration |-> p.alteration, account |-> serverAccount,
     announcedBefore |-> Len(announced), derived |-> <<>>,
     decrypts |-> FALSE, pool |-> pool.made,
     endedBefore |-> id \in closedTokens, dispatched |-> FALSE]

\* handleData awaits this.pool.getConnection(connectionId, prepare): the
\* pool asked is the one the server has at the call.
Asked(p, id) ==
    [handled |-> FALSE, kind |-> "asked", code |-> "", message |-> "",
     data |-> <<>>, errorCode |-> "", decoded |-> TRUE,
     connectionId |-> id, sharedSecret |-> <<>>, created |-> FALSE,
     credential |-> p.credential, alteration |-> p.alteration,
     account |-> serverAccount, announcedBefore |-> Len(announced),
     derived |-> <<>>, decrypts |-> FALSE,
     pool |-> pool.made, endedBefore |-> id \in closedTokens,
     dispatched |-> FALSE]

\* The pool as it is asked: the secret it derives from the id, and whether
\* the Prepare's data decrypts under it, are fixed by the id and the data.
PoolAskedWith(h, data, derived) ==
    [h EXCEPT !.derived = derived, !.decrypts = Decrypts(derived, data)]
PoolAsked(h, data) ==
    PoolAskedWith(h, data,
                  GenerateSharedSecretFromToken(ServerSecret, h.connectionId))

\* The Reject for an error caught after an await, built when it is caught.
RejectedLater(h, err) ==
    [h EXCEPT !.handled = TRUE, !.kind = "reject",
              !.code = RejectFor(err).code,
              !.message = RejectFor(err).message,
              !.data = RejectFor(err).data,
              !.errorCode = err.ilpErrorCode,
              !.account = serverAccount]

\* Pool number m as it is now: the latest is the server's; an earlier one
\* still holds the connections it made that have not ended.
PoolOf(m) ==
    IF m = pool.made THEN pool
    ELSE [made |-> m,
          active |-> {i \in 1..Len(announced) :
                         announced[i].pool = m /\ announced[i].ends = 0},
          closed |-> {announced[i].id :
                         i \in {j \in 1..Len(announced) :
                                   announced[j].pool = m
                                   /\ announced[j].ends > 0}}]

\* Pool m announces a new connection: 'connection' is emitted and every
\* done registered for it is called with the connection.
Announce(id, j, m) ==
    /\ announced' = Append(announced,
                           [id |-> id, ends |-> 0, pool |-> m,
                            reuse |-> id \in closedTokens])
    /\ pool' = IF m = pool.made THEN [pool EXCEPT !.active = @ \cup {j}]
               ELSE pool
    /\ accepts' = [a \in Accepts |->
                     IF a \in listeners.connection
                     THEN Settle(accepts[a], "resolved", j) ELSE accepts[a]]
    /\ listeners' = Done(listeners, "connection", listeners.connection)

NothingAnnounced == UNCHANGED <<announced, pool, accepts, listeners>>

\* The connection of a Prepare with a connection id: the pool is asked for
\* it; there is no pool before the first listen() has built one.
Routed(p, connectionId) ==
    IF pool.made = 0
    THEN Rejected(p, TypeError, connectionId, <<>>)
    ELSE Asked(p, connectionId)

Addressed(p, localAddressParts) ==
    IF Len(localAddressParts) = 0 \/ localAddressParts[1] = <<>>
    THEN Rejected(p, UnreachableError(""), <<>>, <<>>)
    ELSE Routed(p, ConnectionId(localAddressParts))

Decoded(p, prepare) ==
    IF ~prepare.ok THEN Undecoded(p)
    ELSE Addressed(p, LocalAddressParts(serverAccount, prepare.destination))

\* handleData(data) up to its first await: the data is decoded as a
\* Prepare, the connection id is taken from the destination and the pool is
\* asked for the connection; whatever is thrown on the way is answered with
\* a Reject.
Answer(p) == Decoded(p, DeserializeIlpPrepare(p.packet))

\* handleData(data), called by the plugin, up to its first await.
HandleData(p) ==
    /\ dataHandler
    /\ pluginConnected
    /\ calls.prepare < MaxPrepares
    /\ handling = NotServed
    /\ calls' = [calls EXCEPT !.prepare = @ + 1]
    /\ IF Answer(p).kind = "asked"
       THEN /\ handling' = PoolAsked(Answer(p),
                                     DeserializeIlpPrepare(p.packet).data)
            /\ served' = NotServed
       ELSE served' = Answer(p) /\ UNCHANGED handling
    /\ UNCHANGED <<serverConnected, pluginConnected, dataHandler,
                   serverAccount, pool, listening, accepts, listeners,
                   announced, issued, closePc, closeSnapshot,
                   disconnectCalls, closeTrace, closedTokens, lifecycle>>
    /\ NothingGenerated

\* What the pool asked for the connection of h settles with: it throws, or
\* it gives the connection, one it had or a new one.
Found(h, g) ==
    [h EXCEPT !.kind = IF g.kind = "threw" THEN "refused" ELSE "found",
              !.sharedSecret = g.sharedSecret,
              !.created = (g.kind = "new")]

PoolSettled(h) ==
    Found(h, GetConnection(PoolOf(h.pool), announced, h.connectionId,
                           h.derived, h.decrypts))

\* pool.getConnection settles: it throws, or it gives the connection; a new
\* connection is announced by its pool before handleData goes on.
GetConnectionSettled ==
    /\ handling.kind = "asked"
    /\ handling' = PoolSettled(handling)
    /\ served' = NotServed
    /\ IF PoolSettled(handling).created
       THEN /\ Len(announced) < MaxConnections
            /\ Announce(handling.connectionId, Len(announced) + 1,
                        handling.pool)
       ELSE NothingAnnounced
    /\ UNCHANGED <<serverConnected, pluginConnected, dataHandler,
                   serverAccount, listening, issued, closePc, closeSnapshot,
                   disconnectCalls, closeTrace, closedTokens, lifecycle,
                   calls>>
    /\ NothingGenerated

\* handleData goes on after its await of the pool: what the pool threw is
\* answered with an Unreachable Reject; with a connection,
\* connection.handlePrepare(prepare) is called and awaited.
Connected(h) ==
    IF h.kind = "refused" THEN RejectedLater(h, UnreachableError(""))
    ELSE [h EXCEPT !.kind = "dispatched", !.dispatched = TRUE]

HandleDataConnection ==
    /\ handling.kind \in {"found", "refused"}
    /\ IF Connected(handling).handled
       THEN served' = Connected(handling) /\ handling' = NotServed
       ELSE served' = NotServed /\ handling' = Connected(handling)
    /\ UNCHANGED <<serverConnected, pluginConnected, dataHandler,
                   serverAccount, pool, listening, accepts, listeners,
                   announced, issued, closePc, closeSnapshot,
                   disconnectCalls, closeTrace, closedTokens, lifecycle,
                   calls>>
    /\ NothingGenerated

\* What connection.handlePrepare(prepare) settles with: a Fulfill whose data
\* is the connection's encrypted reply, or an error: F99 with the encrypted
\* reply as its data, F06 without data for a Prepare that does not decrypt,
\* or an error that carries no ILP code.
ReplyBody == <<1, 14, 1, 0, 0>>
FinalApplicationError(data) ==
    [ilpErrorCode |-> "F99", ilpErrorMessage |-> "", ilpErrorData |-> <<data>>]
UnexpectedPaymentError ==
    [ilpErrorCode |-> "F06", ilpErrorMessage |-> "", ilpErrorData |-> <<>>]
Fulfilled(data) == [threw |-> FALSE, data |-> data, err |-> TypeError]
Threw(err) == [threw |-> TRUE, data |-> <<>>, err |-> err]
HandlePrepareOutcomes(h) ==
    IF ~h.decrypts THEN {Threw(UnexpectedPaymentError)}
    ELSE {Fulfilled(ReplyBody), Threw(FinalApplicationError(ReplyBody)),
          Threw(TypeError)}

\* handleData after its await of the connection: the Fulfill is serialized
\* and returned, and what the connection threw is answered with a Reject.
Replied(h, outcome) ==
    IF outcome.threw THEN RejectedLater(h, outcome.err)
    ELSE [h EXCEPT !.handled = TRUE, !.kind = "passed",
                   !.data = outcome.data]

\* connection.handlePrepare settled: handleData returns its reply.
HandleDataReply(outcome) ==
    /\ handling.kind = "dispatched"
    /\ outcome \in HandlePrepareOutcomes(handling)
    /\ served' = Replied(handling, outcome)
    /\ handling' = NotServed
    /\ UNCHANGED <<serverConnected, pluginConnected, dataHandler,
                   serverAccount, pool, listening, accepts, listeners,
                   announced, issued, closePc, closeSnapshot,
                   disconnectCalls, closeTrace, closedTokens, lifecycle,
                   calls>>
    /\ NothingGenerated

\* A connection ends (its own end() or destroy(), its peer's close, or the
\* pool's close()): 'end' fires and its pool forgets it and remembers its id
\* as closed.
EndConnection(i) ==
    /\ i \in 1..Len(announced)
    /\ announced[i].ends = 0
    /\ announced' = [announced EXCEPT ![i].ends = 1]
    /\ pool' = IF announced[i].pool = pool.made
               THEN [pool EXCEPT !.active = @ \ {i},
                                 !.closed = @ \cup {announced[i].id}]
               ELSE pool
    /\ closedTokens' = closedTokens \cup {announced[i].id}
    /\ closeTrace' = IF closePc = "ending" /\ i \in closeSnapshot
                     THEN Append(closeTrace, "end") ELSE closeTrace
    /\ UNCHANGED <<serverConnected, pluginConnected, dataHandler,
                   serverAccount, listening, accepts, listeners, issued,
                   closePc, closeSnapshot, disconnectCalls, lifecycle, calls>>
    /\ NothingGenerated
    /\ NothingServed

\* ---------------------------------------------------------- server: close()
\* close() up to its await of this.pool.close(), which asks every active
\* connection to end; without a pool the call throws.
Close ==
    /\ closePc \in {"none", "resolved", "threw"}
    /\ calls.lifecycle < MaxCalls
    /\ calls' = [calls EXCEPT !.lifecycle = @ + 1]
    /\ closeSnapshot' = pool.active
    /\ closePc' = IF pool.made = 0 THEN "threw" ELSE "ending"
    /\ disconnectCalls' = 0
    /\ closeTrace' = <<>>
    /\ UNCHANGED dataHandler
    /\ accepts' = [a \in Accepts |->
                     IF accepts[a].pc \in {"listening", "waiting"}
                     THEN [accepts[a] EXCEPT !.closedDuring = TRUE]
                     ELSE accepts[a]]
    /\ UNCHANGED <<serverConnected, pluginConnected, serverAccount, pool,
                   listening, listeners, announced, issued, closedTokens,
                   lifecycle>>
    /\ NothingGenerated
    /\ NothingServed

\* pool.close() resolved: the data handler is deregistered and
\* plugin.disconnect() is awaited.
CloseEnded ==
    /\ closePc = "ending"
    /\ \A i \in closeSnapshot : announced[i].ends > 0
    /\ dataHandler' = FALSE
    /\ disconnectCalls' = disconnectCalls + 1
    /\ closeTrace' = closeTrace \o <<"deregister", "disconnect">>
    /\ closePc' = "disconnecting"
    /\ UNCHANGED <<serverConnected, pluginConnected, serverAccount, pool,
                   listening, accepts, listeners, announced, issued,
                   closeSnapshot, closedTokens, lifecycle, calls>>
    /\ NothingGenerated
    /\ NothingServed

\* plugin.disconnect() resolved: '_close' is emitted, every done registered
\* for it is called with nothing, and the server is no longer connected.
CloseDisconnected ==
    /\ closePc = "disconnecting"
    /\ pluginConnected' = FALSE
    /\ accepts' = [a \in Accepts |->
                     IF a \in listeners.close
                     THEN Settle(accepts[a], "rejected", 0) ELSE accepts[a]]
    /\ listeners' = Done(listeners, "close", listeners.close)
    /\ serverConnected' = FALSE
    /\ lifecycle' = "down"
    /\ closePc' = "resolved"
    /\ UNCHANGED <<dataHandler, serverAccount, pool, listening, announced,
                   issued, closeSnapshot, disconnectCalls, closeTrace,
                   closedTokens, calls>>
    /\ NothingGenerated
    /\ NothingServed

\* ------------------------------------------ the memoizing crypto helper
\* generateSharedSecretFromToken(seed, token) of the memoizing helper:
\* sharedSecretMap is keyed by the token's Buffer object; a miss derives the
\* secret from the seed and the token's bytes and stores it.
GenerateSharedSecretFromTokenCached(map, seed, token) ==
    IF token.id \in DOMAIN map
    THEN [val |-> map[token.id], map |-> map]
    ELSE LET sharedSecret == hmac(hmac(seed, SHARED_SECRET_GENERATION_STRING),
                                  token.bytes)
         IN [val |-> sharedSecret,
             map |-> [o \in DOMAIN map \cup {token.id} |->
                         IF o = token.id THEN sharedSecret ELSE map[o]]]

memoVars == <<sharedSecretMap, derivation>>

NotDerived == [fn |-> "none", key |-> <<>>, input |-> <<>>, object |-> 0,
               val |-> <<>>]

MemoIdle ==
    /\ sharedSecretMap = <<>>
    /\ derivation = NotDerived

\* The Buffer objects the callers hold: two tokens with the same bytes, and
\* two shared secrets with different bytes.
TokenObjects ==
    << [i \in 1..TOKEN_LENGTH |-> (i * 37 + 214) % 256],
       [i \in 1..TOKEN_LENGTH |-> (i * 37 + 214) % 256] >>
SecretBuffers ==
    << [i \in 1..32 |-> i], [i \in 1..32 |-> 255 - ((i * 3) % 7)] >>
SeedSamples == { [i \in 1..32 |-> 0], [i \in 1..32 |-> (i * 11) % 256] }
MemoDataSamples == { <<>>, <<1, 2, 255>> }

\* generateSharedSecretFromToken(seed, token), the token in Buffer object t.
DeriveSharedSecret(seed, t) ==
    /\ LET r == GenerateSharedSecretFromTokenCached(sharedSecretMap, seed,
                    [id |-> t, bytes |-> TokenObjects[t]])
       IN /\ sharedSecretMap' = r.map
          /\ derivation' = [fn |-> "sharedSecret", key |-> seed,
                         input |-> TokenObjects[t], object |-> t,
                         val |-> r.val]
    /\ UNCHANGED <<fulfillmentKeyMap, pskKeyMap>>

\* generateFulfillment(sharedSecret, data), the secret in Buffer object o.
DeriveFulfillment(o, data) ==
    /\ LET r == GenerateFulfillment(fulfillmentKeyMap,
                    [id |-> o, bytes |-> SecretBuffers[o]], data)
       IN /\ fulfillmentKeyMap' = r.map
          /\ derivation' = [fn |-> "fulfillment", key |-> SecretBuffers[o],
                         input |-> data, object |-> o, val |-> r.val]
    /\ UNCHANGED <<sharedSecretMap, pskKeyMap>>

\* getPskEncryptionKey(sharedSecret), as encrypt and decrypt call it.
DeriveEncryptionKey(o) ==
    /\ LET r == GetPskEncryptionKey(pskKeyMap,
                    [id |-> o, bytes |-> SecretBuffers[o]])
       IN /\ pskKeyMap' = r.map
          /\ derivation' = [fn |-> "encryptionKey", key |-> SecretBuffers[o],
                         input |-> <<>>, object |-> o, val |-> r.key]
    /\ UNCHANGED <<sharedSecretMap, fulfillmentKeyMap>>

\* ---------------------------------------------------------- specifications
ConnInit ==
    /\ sendMax = ZeroPerStream
    /\ totalSent = ZeroPerStream
    /\ holds = ZeroPerStream
    /\ nextPacketSequence = 1
    /\ awaiting = 0
    /\ network = {}
    /\ connState = "open"
    /\ sentLog = <<>>
    /\ outData = FALSE
    /\ receipt = [s \in Streams |-> -1]
    /\ receiptPrev = [s \in Streams |-> -1]
    /\ receiveMax = ZeroPerStream
    /\ totalReceived = ZeroPerStream
    /\ lastReply = NoReply

\* The variables of the parts added to the codec and the encryption envelope.
lateVars == <<authVars, fulfillVars, sorterVars, receiptVars, serverVars, memoVars, padVars>>
LateIdle ==
    AuthIdle /\ FulfillIdle /\ SorterIdle /\ ReceiptIdle /\ ServerIdle
    /\ MemoIdle
    /\ PadIdle

pureVars == <<codecVars, cryptoVars, lateVars>>

vars == <<connVars, recvVars, pureVars>>

Init == ConnInit /\ CodecIdle /\ CryptoIdle /\ LateIdle

\* The connection: both sides, the application's calls and the network.
Next ==
    \/ /\ \E s \in Streams, n \in 0..MaxAmount : SetSendMax(s, n)
       /\ UNCHANGED pureVars
    \/ /\ \E s \in Streams, n \in 0..MaxAmount : SetReceiveMax(s, n)
       /\ UNCHANGED <<connVars, pureVars>>
    \/ Write /\ UNCHANGED pureVars
    \/ /\ \E amount \in 0..MaxAmount : Dispatch(amount)
       /\ UNCHANGED pureVars
    \/ /\ \E p \in network : Deliver(p)
       /\ UNCHANGED pureVars
    \/ /\ \E p \in network, code \in NetworkRejectCodes : NetworkReject(p, code)
       /\ UNCHANGED pureVars
    \/ End /\ UNCHANGED pureVars
    \/ DrainedAndClose /\ UNCHANGED pureVars
    \/ Destroy /\ UNCHANGED pureVars
    \/ SequenceExhausted /\ UNCHANGED pureVars

Spec == Init /\ [][Next]_vars

\* The receiving side alone, fed Prepares of any amount and any frames.
NextRecv ==
    \/ /\ \E s \in Streams, n \in 0..MaxAmount : SetReceiveMax(s, n)
       /\ UNCHANGED <<connVars, pureVars>>
    \/ /\ \E amount \in 0..MaxAmount, frames \in MoneyFrameLists :
              ReceivePrepare(amount, frames)
       /\ UNCHANGED <<connVars, pureVars>>

SpecRecv == Init /\ [][NextRecv]_vars

\* The codec alone: a packet is serialized, then deserialized.
InitCodec ==
    /\ ConnInit
    /\ CryptoIdle
    /\ LateIdle
    /\ packet \in Packets(HeaderSamples, FrameSamples)
    /\ wire = <<>>
    /\ decoded = Thrown
    /\ inserted = NoForeign
    /\ codecStep = "new"

NextCodec ==
    \/ Serialize /\ UNCHANGED <<connVars, recvVars, cryptoVars, lateVars>>
    \/ Deserialize /\ UNCHANGED <<connVars, recvVars, cryptoVars, lateVars>>

SpecCodec == InitCodec /\ [][NextCodec]_vars

\* The codec given the bytes of a peer whose packet has a frame of a type
\* this version has no class for.
InitSkip ==
    /\ ConnInit
    /\ CryptoIdle
    /\ LateIdle
    /\ packet \in Packets(SkipHeaderSamples, SkipFrameSamples)
    /\ wire = <<>>
    /\ decoded = Thrown
    /\ inserted = NoForeign
    /\ codecStep = "new"

NextSkip ==
    \/ /\ \E i \in 0..Len(packet.frames), f \in ForeignFrames :
              InsertForeignFrame(i, f)
       /\ UNCHANGED <<connVars, recvVars, cryptoVars, lateVars>>
    \/ Deserialize /\ UNCHANGED <<connVars, recvVars, cryptoVars, lateVars>>

SpecSkip == InitSkip /\ [][NextSkip]_vars

\* The codec given bytes whose first byte is any version.
VersionSamples == {0, VERSION, 2, 255}

NextVersion ==
    \/ Serialize /\ UNCHANGED <<connVars, recvVars, cryptoVars, lateVars>>
    \/ /\ \E v \in VersionSamples, n \in 1..Len(wire) : ForgeVersion(v, n)
       /\ UNCHANGED <<connVars, recvVars, cryptoVars, lateVars>>
    \/ Deserialize /\ UNCHANGED <<connVars, recvVars, cryptoVars, lateVars>>

SpecVersion == InitSkip /\ [][NextVersion]_vars

\* The encryption envelope alone: buffers are encrypted under a secret with
\* a random iv, then decrypted under the same secret.
InitCrypto ==
    /\ ConnInit
    /\ CodecIdle
    /\ LateIdle
    /\ cryptoApi \in {"memo", "plain"}
    /\ secretBytes \in SecretSamples
    /\ plainBuffers \in BufferLists
    /\ pskKeyMap = <<>>
    /\ sealed = <<>>
    /\ opened = DecryptThrew
    /\ cryptoStep = "new"

NextCrypto ==
    \/ /\ \E o \in SecretObjects, iv \in IvSamples : EncryptCached(o, iv)
       /\ UNCHANGED <<connVars, recvVars, codecVars, lateVars>>
    \/ /\ \E o \in SecretObjects : DecryptCached(o)
       /\ UNCHANGED <<connVars, recvVars, codecVars, lateVars>>
    \/ /\ \E iv \in IvSamples : EncryptUncached(iv)
       /\ UNCHANGED <<connVars, recvVars, codecVars, lateVars>>
    \/ DecryptUncached /\ UNCHANGED <<connVars, recvVars, codecVars, lateVars>>

SpecCrypto == InitCrypto /\ [][NextCrypto]_vars

\* A sealed packet between encrypt and decryptAndDeserialize: it arrives as
\* sent, or with a byte changed, or cut short, or is opened with another
\* secret.
AuthPlains ==
    {<<>>} \cup {PacketWriteTo(p) : p \in Packets(SkipHeaderSamples, {})}

\* What is added to a byte changed on the way.
ByteChanges == {1, 128, 255}

cryptoCallVars == <<cryptoApi, secretBytes, plainBuffers, sealed, opened,
                    cryptoStep>>

InitAuth ==
    /\ ConnInit
    /\ ServerIdle
    /\ MemoIdle
    /\ PadIdle
    /\ CodecIdle
    /\ CryptoIdle
    /\ FulfillIdle
    /\ SorterIdle
    /\ ReceiptIdle
    /\ authSecret \in SecretSamples
    /\ authOpenSecret = authSecret
    /\ authPlain \in AuthPlains
    /\ authSent = <<>>
    /\ authReceived = <<>>
    /\ authAltered = "none"
    /\ authOpened = DecryptThrew
    /\ authPacket = Thrown
    /\ authStep = "new"

NextAuth ==
    \/ /\ \E iv \in IvSamples : Seal(iv)
       /\ UNCHANGED <<connVars, recvVars, codecVars, cryptoCallVars, fulfillVars, sorterVars, receiptVars, serverVars, memoVars, padVars>>
    \/ /\ \E i \in 1..Len(authSent), d \in ByteChanges : AlterByte(i, d)
       /\ UNCHANGED <<connVars, recvVars, codecVars, cryptoCallVars, fulfillVars, sorterVars, receiptVars, serverVars, memoVars, padVars>>
    \/ /\ \E n \in 0..(ENCRYPTION_OVERHEAD - 1) : Truncate(n)
       /\ UNCHANGED <<connVars, recvVars, codecVars, cryptoCallVars, fulfillVars, sorterVars, receiptVars, serverVars, memoVars, padVars>>
    \/ /\ \E secret \in SecretSamples : OtherSecret(secret)
       /\ UNCHANGED <<connVars, recvVars, codecVars, cryptoCallVars, fulfillVars, sorterVars, receiptVars, serverVars, memoVars, padVars>>
    \/ Open /\ UNCHANGED <<connVars, recvVars, codecVars, cryptoCallVars, fulfillVars, sorterVars, receiptVars, serverVars, memoVars, padVars>>

SpecAuth == InitAuth /\ [][NextAuth]_vars

\* Condition and fulfillment of one Prepare: the sender derives the
\* condition, the data arrives intact or not, the receiver (holding the same
\* secret or another) derives the fulfillment.
PrepareDataSamples ==
    { <<>>, <<0>>, <<1, 2, 255>>,
      [i \in 1..(ENCRYPTION_OVERHEAD + 2) |-> (i * 37) % 256] }

InitFulfill ==
    /\ ConnInit
    /\ ServerIdle
    /\ MemoIdle
    /\ PadIdle
    /\ CodecIdle
    /\ CryptoIdle
    /\ AuthIdle
    /\ SorterIdle
    /\ ReceiptIdle
    /\ fulfillSecret \in SecretSamples
    /\ fulfillOpenSecret \in SecretSamples
    /\ fulfillData \in PrepareDataSamples
    /\ fulfillCondition = <<>>
    /\ fulfillReceived = <<>>
    /\ fulfillments = <<>>
    /\ fulfillmentKeyMap = <<>>
    /\ fulfillStep = "new"

NextFulfill ==
    \/ /\ \E o \in SecretObjects : SendPrepare(o)
       /\ UNCHANGED <<connVars, recvVars, codecVars, cryptoVars, authVars, sorterVars, receiptVars, serverVars, memoVars, padVars>>
    \/ ArriveIntact
       /\ UNCHANGED <<connVars, recvVars, codecVars, cryptoVars, authVars, sorterVars, receiptVars, serverVars, memoVars, padVars>>
    \/ /\ \E i \in 1..Len(fulfillData), d \in ByteChanges : ArriveChanged(i, d)
       /\ UNCHANGED <<connVars, recvVars, codecVars, cryptoVars, authVars, sorterVars, receiptVars, serverVars, memoVars, padVars>>
    \/ /\ \E grow \in BOOLEAN : ArriveResized(grow)
       /\ UNCHANGED <<connVars, recvVars, codecVars, cryptoVars, authVars, sorterVars, receiptVars, serverVars, memoVars, padVars>>
    \/ /\ \E o \in SecretObjects : Fulfill(o)
       /\ UNCHANGED <<connVars, recvVars, codecVars, cryptoVars, authVars, sorterVars, receiptVars, serverVars, memoVars, padVars>>

SpecFulfill == InitFulfill /\ [][NextFulfill]_vars

\* The sorter of one stream: chunks of what the sender wrote, and chunks
\* that differ from it, are pushed in any order, any number of times, and
\* read() is called at any moment.
Originals == {[i \in 1..n |-> i * 10] : n \in 1..MaxLength}

\* Bytes first+1..first+n of what was written, or bytes that all differ.
ChunkOf(bytes, first, n, intact) ==
    [data |-> [i \in 1..n |-> IF intact THEN bytes[first + i]
                               ELSE (bytes[first + i] + 1) % 256],
     offset |-> first]

InitSorter ==
    /\ ConnInit
    /\ ServerIdle
    /\ MemoIdle
    /\ PadIdle
    /\ CodecIdle
    /\ CryptoIdle
    /\ AuthIdle
    /\ FulfillIdle
    /\ ReceiptIdle
    /\ original \in Originals
    /\ head = <<>>
    /\ readOffset = 0
    /\ maxOffset = 0
    /\ endOffset = -1
    /\ pushLog = <<>>
    /\ readLog = <<>>
    /\ lastRead = "none"

otherThanSorter == <<connVars, recvVars, codecVars, cryptoVars, authVars,
                     fulfillVars, receiptVars, serverVars, memoVars, padVars>>

NextSorter ==
    \/ /\ \E first \in 0..(Len(original) - 1), n \in 1..Len(original),
             intact \in BOOLEAN :
              /\ first + n <= Len(original)
              /\ Push(ChunkOf(original, first, n, intact).data, first)
       /\ UNCHANGED otherThanSorter
    \/ Read /\ UNCHANGED otherThanSorter
    \/ /\ \E offset \in 0..MaxLength : SetEndOffset(offset)
       /\ UNCHANGED otherThanSorter

SpecSorter == InitSorter /\ [][NextSorter]_vars

\* Receipts: one is created from the options given, presented as it is, with
\* a byte changed or at another length, then verified under a secret or
\* decoded.
NonceSamples ==
    { [i \in 1..NonceLength |-> 0], [i \in 1..NonceLength |-> (i * 17) % 256],
      [i \in 1..(NonceLength \div 2) |-> 0],
      [i \in 1..(NonceLength + 1) |-> 0] }

ReceiptSecretSamples ==
    { [i \in 1..ReceiptSecretLength |-> 0],
      [i \in 1..ReceiptSecretLength |-> (i * 29) % 256],
      [i \in 1..(ReceiptSecretLength - 1) |-> 0] }

StreamIdSamples == {0, 1, 255}
TotalReceivedSamples == {0, 500, MaxUInt}
PresentedLengths == {0, 26, 32, 57, 58, 59}

InitReceipt ==
    /\ ConnInit
    /\ ServerIdle
    /\ MemoIdle
    /\ PadIdle
    /\ CodecIdle
    /\ CryptoIdle
    /\ AuthIdle
    /\ FulfillIdle
    /\ SorterIdle
    /\ receiptOpts \in [nonce : NonceSamples, streamId : StreamIdSamples,
                        totalReceived : TotalReceivedSamples,
                        secret : ReceiptSecretSamples]
    /\ created = ReceiptThrew("")
    /\ presented = <<>>
    /\ verifySecret = <<>>
    /\ verified = [threw |-> FALSE, val |-> FALSE]
    /\ decodedReceipt = [ok |-> FALSE, error |-> "", val |-> NoReceipt]
    /\ receiptStep = "new"

otherThanReceipt == <<connVars, recvVars, codecVars, cryptoVars, authVars,
                      fulfillVars, sorterVars, serverVars, memoVars, padVars>>

NextReceipt ==
    \/ Create /\ UNCHANGED otherThanReceipt
    \/ /\ \E i \in 1..ReceiptLength, d \in ByteChanges : PresentChanged(i, d)
       /\ UNCHANGED otherThanReceipt
    \/ /\ \E n \in PresentedLengths : PresentResized(n)
       /\ UNCHANGED otherThanReceipt
    \/ /\ \E secret \in ReceiptSecretSamples : Verify(secret)
       /\ UNCHANGED otherThanReceipt
    \/ Decode /\ UNCHANGED otherThanReceipt

SpecReceipt == InitReceipt /\ [][NextReceipt]_vars

\* What generateToken() returns, call after call.
TokenSamples ==
    << [i \in 1..TOKEN_LENGTH |-> 255],
       [i \in 1..TOKEN_LENGTH |-> (i * 37 + 214) % 256] >>

\* Connection tags: none, one the server takes, and two it refuses.
TagSamples == { <<>>, <<97, Tilde, 45>>, <<97, Dot, 98>>, <<49, 10>> }

InitServer ==
    /\ ConnInit
    /\ CodecIdle
    /\ CryptoIdle
    /\ AuthIdle
    /\ FulfillIdle
    /\ SorterIdle
    /\ ReceiptIdle
    /\ ServerIdle
    /\ MemoIdle
    /\ PadIdle

otherThanServer == <<connVars, recvVars, codecVars, cryptoVars, authVars,
                     fulfillVars, sorterVars, receiptVars, memoVars, padVars>>

\* The server's life: the application listens, closes, accepts connections
\* and generates addresses in any order; clients send Prepares to the
\* addresses they were given while the data handler is registered;
\* connections end at any moment.
NextServer ==
    \/ Listen /\ UNCHANGED otherThanServer
    \/ /\ \E c \in Callers : ListenConnected(c)
       /\ UNCHANGED otherThanServer
    \/ /\ \E c \in Callers : ListenFetched(c)
       /\ UNCHANGED otherThanServer
    \/ /\ \E a \in Accepts : AcceptConnection(a)
       /\ UNCHANGED otherThanServer
    \/ /\ \E a \in Accepts : AcceptRegister(a)
       /\ UNCHANGED otherThanServer
    \/ /\ calls.generate < Len(TokenSamples)
       /\ Generate(TokenSamples[calls.generate + 1], <<>>)
       /\ UNCHANGED otherThanServer
    \/ GenerateReturn /\ UNCHANGED otherThanServer
    \/ /\ \E credential \in 1..Len(issued) :
              HandleData(PrepareOf(credential, "none"))
       /\ UNCHANGED otherThanServer
    \/ GetConnectionSettled /\ UNCHANGED otherThanServer
    \/ HandleDataConnection /\ UNCHANGED otherThanServer
    \/ /\ \E outcome \in HandlePrepareOutcomes(handling) :
              HandleDataReply(outcome)
       /\ UNCHANGED otherThanServer
    \/ /\ \E i \in 1..Len(announced) : EndConnection(i)
       /\ UNCHANGED otherThanServer
    \/ Close /\ UNCHANGED otherThanServer
    \/ CloseEnded /\ UNCHANGED otherThanServer
    \/ CloseDisconnected /\ UNCHANGED otherThanServer

SpecServer == InitServer /\ [][NextServer]_vars

\* The promises the server awaits are settled: plugin.connect(), ILDCP.fetch,
\* the end() of the connections the pool closes and plugin.disconnect()
\* resolve, and the continuation of a resolved await runs.
ServerProgress ==
    \/ \E c \in Callers : ListenConnected(c)
    \/ \E c \in Callers : ListenFetched(c)
    \/ \E a \in Accepts : AcceptRegister(a)
    \/ GenerateReturn
    \/ GetConnectionSettled
    \/ HandleDataConnection
    \/ \E outcome \in HandlePrepareOutcomes(handling) : HandleDataReply(outcome)
    \/ \E i \in closeSnapshot : closePc = "ending" /\ EndConnection(i)
    \/ CloseEnded
    \/ CloseDisconnected

SpecServerLive ==
    SpecServer /\ WF_vars(ServerProgress /\ UNCHANGED otherThanServer)

\* Routing: the server listens, generates addresses with any tag, and
\* Prepares of clients and strangers arrive, addressed as told or otherwise.
NextRouting ==
    \/ Listen /\ UNCHANGED otherThanServer
    \/ ListenConnected(0) /\ UNCHANGED otherThanServer
    \/ ListenFetched(0) /\ UNCHANGED otherThanServer
    \/ /\ \E connectionTag \in TagSamples :
              /\ calls.generate < Len(TokenSamples)
              /\ Generate(TokenSamples[calls.generate + 1], connectionTag)
       /\ UNCHANGED otherThanServer
    \/ /\ \E credential \in 0..Len(issued), alteration \in Alterations :
              /\ credential = 0 => alteration \in {"bare", "dot"}
              /\ HandleData(PrepareOf(credential, alteration))
       /\ UNCHANGED otherThanServer
    \/ /\ \E bytes \in RawSamples : HandleData(RawData(bytes))
       /\ UNCHANGED otherThanServer
    \/ GenerateReturn /\ UNCHANGED otherThanServer
    \/ GetConnectionSettled /\ UNCHANGED otherThanServer
    \/ HandleDataConnection /\ UNCHANGED otherThanServer
    \/ /\ \E outcome \in HandlePrepareOutcomes(handling) :
              HandleDataReply(outcome)
       /\ UNCHANGED otherThanServer
    \/ Close /\ UNCHANGED otherThanServer
    \/ CloseEnded /\ UNCHANGED otherThanServer
    \/ CloseDisconnected /\ UNCHANGED otherThanServer
    \/ /\ \E i \in 1..Len(announced) : EndConnection(i)
       /\ UNCHANGED otherThanServer

SpecRouting == InitServer /\ [][NextRouting]_vars

\* The memoizing helper: derivations are asked for in any order, with any
\* seed, for the Buffer objects the callers hold.
otherThanMemo ==
    <<connVars, recvVars, codecVars, cryptoApi, secretBytes, plainBuffers,
      sealed, opened, cryptoStep, authVars, fulfillSecret, fulfillData,
      fulfillCondition, fulfillOpenSecret, fulfillReceived, fulfillments,
      fulfillStep, sorterVars, receiptVars, serverVars, padVars>>

NextMemo ==
    \/ /\ \E seed \in SeedSamples, t \in 1..Len(TokenObjects) :
              DeriveSharedSecret(seed, t)
       /\ UNCHANGED otherThanMemo
    \/ /\ \E o \in 1..Len(SecretBuffers), data \in MemoDataSamples :
              DeriveFulfillment(o, data)
       /\ UNCHANGED otherThanMemo
    \/ /\ \E o \in 1..Len(SecretBuffers) : DeriveEncryptionKey(o)
       /\ UNCHANGED otherThanMemo

SpecMemo == InitServer /\ [][NextMemo]_vars


\* A packet is serialized, padded and encrypted, then decrypted and
\* deserialized under the same secret.
PadPackets ==
    { Packet(1, IlpPacketType.Prepare, 256, <<>>),
      Packet(127, IlpPacketType.Fulfill, 128,
             << NewFrame("StreamMoney", [streamId |-> 1, shares |-> 1]),
                NewFrame("StreamData", [streamId |-> 1, offset |-> 0,
                                        data |-> <<1, 2, 255>>]) >>),
      Packet(255, IlpPacketType.Reject, 0,
             << NewFrame("ConnectionClose",
                         [errorCode |-> "NoError", errorMessage |-> <<>>]) >>) }

PadSamples == {NoPadding} \cup {PadTo(size) : size \in 0..MaxPadSize}

InitPad ==
    /\ ConnInit
    /\ CryptoIdle
    /\ FulfillIdle
    /\ SorterIdle
    /\ ReceiptIdle
    /\ ServerIdle
    /\ MemoIdle
    /\ PadIdle
    /\ packet \in PadPackets
    /\ wire = <<>>
    /\ decoded = Thrown
    /\ inserted = NoForeign
    /\ codecStep = "idle"
    /\ authSecret = [i \in 1..32 |-> i]
    /\ authOpenSecret = authSecret
    /\ authPlain = <<>>
    /\ authSent = <<>>
    /\ authReceived = <<>>
    /\ authAltered = "none"
    /\ authOpened = DecryptThrew
    /\ authPacket = Thrown
    /\ authStep = "new"

NextPad ==
    \/ /\ \E iv \in IvSamples, padPacketToSize \in PadSamples :
              SealPacket(iv, padPacketToSize)
       /\ UNCHANGED <<connVars, recvVars, codecVars, cryptoCallVars,
                      fulfillVars, sorterVars, receiptVars, serverVars,
                      memoVars>>
    \/ Open /\ UNCHANGED <<connVars, recvVars, codecVars, cryptoCallVars,
                           fulfillVars, sorterVars, receiptVars, serverVars,
                           memoVars, padVars>>

SpecPad == InitPad /\ [][NextPad]_vars

\* ------------------------------------------------------------------ claims
\* C1: at every moment at most one Prepare the connection originated is still
\* awaiting its Fulfill or Reject, whatever calls and responses interleave.
C1_SingleInFlight == Cardinality(network) <= 1

\* C2: for every stream, total_sent plus the holds of its pending packets
\* never exceeds send_max.
C2_HoldSafety == \A s \in Streams : totalSent[s] + holds[s] <= sendMax[s]

CreditOf(s, amount, frames) ==
    LET amts == FrameAmounts(amount, frames) IN
    SumSeq([i \in 1..Len(frames) |->
               IF frames[i].streamId = s THEN amts[i] ELSE 0])

Overflows(amount, frames) ==
    \E s \in NamedStreams(frames) :
        totalReceived[s] + CreditOf(s, amount, frames) > receiveMax[s]

\* Every Prepare that would take a stream above receive_max is rejected with
\* F99, leaves every total as it was, and answers with a StreamMaxMoney frame
\* of an overflowing stream.
C4_RejectsWhole ==
    \A amount \in 0..MaxAmount, frames \in MoneyFrameLists :
        Overflows(amount, frames) =>
            LET r == HandleMoney(amount, frames, totalReceived, receiveMax) IN
            /\ r.kind = "reject"
            /\ r.code = "F99"
            /\ r.total = totalReceived
            /\ \E f \in r.frames :
                  /\ f.type = "StreamMaxMoney"
                  /\ f.streamId \in NamedStreams(frames)
                  /\ f.receiveMax = receiveMax[f.streamId]
                  /\ f.totalReceived = totalReceived[f.streamId]

\* C4: handling a Prepare is atomic with respect to money: when a frame would
\* overflow its stream the whole Prepare is rejected, no total changes, and
\* the reject body carries a StreamMaxMoney frame.
C4_AtomicReject ==
    /\ []C4_RejectsWhole
    /\ [][lastReply'.kind = "reject" =>
            /\ totalReceived' = totalReceived
            /\ lastReply'.code = "F99"
            /\ \E f \in lastReply'.frames : f.type = "StreamMaxMoney"]_vars

\* A Prepare naming both streams was rejected because of stream 3 while
\* stream 1 still had room.
C4_Witness ==
    /\ lastReply.kind = "reject"
    /\ lastReply.named = Streams
    /\ \E f \in lastReply.frames : f.streamId = 3
    /\ totalReceived[1] < receiveMax[1]

\* C5: for a fixed stream the totalReceived of the receipts the sender
\* observes never decreases from one receipt to the next.
C5_ReceiptMonotonic == \A s \in Streams : receiptPrev[s] <= receipt[s]

\* Two receipts were observed on a stream, the later one larger.
C5_Witness ==
    \E s \in Streams : receiptPrev[s] >= 0 /\ receipt[s] > receiptPrev[s]

\* C6: the sequence numbers of the packets sent are strictly increasing,
\* never reused, and stay below the limit.
C6_SequenceIncreasing ==
    /\ \A i, j \in 1..Len(sentLog) : i < j => sentLog[i] < sentLog[j]
    /\ \A i \in 1..Len(sentLog) :
          /\ sentLog[i] < nextPacketSequence
          /\ sentLog[i] < MaxSequence
    /\ \A p \in network : \E i \in 1..Len(sentLog) : sentLog[i] = p.seq

\* The receiver rejected the money of the first packet and the retry is in
\* flight under a new sequence number.
C6_Witness ==
    /\ Len(sentLog) >= 2
    /\ lastReply.kind = "reject"
    /\ awaiting = sentLog[Len(sentLog)]
    /\ \E s \in Streams : holds[s] > 0
    /\ totalSent = ZeroPerStream

\* The text a frame carries, if any.
FrameText(f) ==
    IF "errorMessage" \in DOMAIN f THEN f.errorMessage
    ELSE IF "sourceAccount" \in DOMAIN f THEN f.sourceAccount
    ELSE <<>>

\* A string in which every surrogate has its partner: as code points, it
\* holds no surrogate.
WellFormedText(str) ==
    \A i \in 1..Len(str) : ~IsHighSurrogate(str[i]) /\ ~IsLowSurrogate(str[i])

\* C7, as stated: deserializing a serialized packet returns the same
\* sequence, ILP packet type and prepareAmount and the same frames, with the
\* same field values, in the same order, whatever the frames hold.
C7_RoundTripAnyText ==
    (codecStep = "decoded" /\ inserted = NoForeign) =>
        /\ decoded.ok
        /\ decoded.packet.sequence = packet.sequence
        /\ decoded.packet.ilpPacketType = packet.ilpPacketType
        /\ decoded.packet.prepareAmount = packet.prepareAmount
        /\ Len(decoded.packet.frames) = Len(packet.frames)
        /\ \A i \in 1..Len(packet.frames) :
              decoded.packet.frames[i] = packet.frames[i]

\* C7, amended: for a packet in which no errorMessage and no sourceAccount
\* holds a surrogate without its partner, deserializing the serialized
\* packet returns the same sequence, ILP packet type and prepareAmount and
\* the same frames, with the same field values, in the same order.
C7_PacketRoundTrip ==
    (/\ codecStep = "decoded"
     /\ inserted = NoForeign
     /\ \A i \in 1..Len(packet.frames) :
           WellFormedText(FrameText(packet.frames[i]))) =>
        /\ decoded.ok
        /\ decoded.packet.sequence = packet.sequence
        /\ decoded.packet.ilpPacketType = packet.ilpPacketType
        /\ decoded.packet.prepareAmount = packet.prepareAmount
        /\ Len(decoded.packet.frames) = Len(packet.frames)
        /\ \A i \in 1..Len(packet.frames) :
              decoded.packet.frames[i] = packet.frames[i]

\* A Reject with the largest sequence came back with its StreamData frame of
\* 130 bytes and its StreamClose frame, whose message has a character of
\* four UTF-8 bytes, in that order.
C7_Witness ==
    /\ codecStep = "decoded"
    /\ packet.sequence = MaxUInt
    /\ packet.ilpPacketType = IlpPacketType.Reject
    /\ Len(packet.frames) = 2
    /\ packet.frames[1] = NewFrame("StreamData", [streamId |-> 1, offset |-> 65536, data |-> LongData])
    /\ packet.frames[2].type = FrameType.StreamClose
    /\ packet.frames[2].errorMessage = <<103, 128512>>
    /\ Len(wire) > 130
    /\ decoded.ok
    /\ decoded.packet.frames = packet.frames

\* Type bytes for which parseFrame has a case.
RecognizedTypes ==
    {FrameType.ConnectionClose, FrameType.ConnectionNewAddress,
     FrameType.ConnectionMaxData, FrameType.ConnectionDataBlocked,
     FrameType.ConnectionMaxStreamId, FrameType.ConnectionStreamIdBlocked,
     FrameType.StreamClose, FrameType.StreamMoney, FrameType.StreamMaxMoney,
     FrameType.StreamMoneyBlocked, FrameType.StreamData,
     FrameType.StreamMaxData, FrameType.StreamDataBlocked}

\* C8: a frame of an unrecognized type, inserted at any position with any
\* length-prefixed contents, never makes decoding fail, and the decoded
\* packet has exactly the recognized frames of the original, in order.
C8_UnknownFrameSkip ==
    (codecStep = "decoded" /\ inserted.at >= 0
        /\ inserted.type \notin RecognizedTypes) =>
        /\ decoded.ok
        /\ decoded.packet.frames = packet.frames
        /\ decoded.packet.sequence = packet.sequence
        /\ decoded.packet.ilpPacketType = packet.ilpPacketType
        /\ decoded.packet.prepareAmount = packet.prepareAmount

\* A frame of type 0xFE with 130 bytes of contents was put between the two
\* frames of a packet and skipped.
C8_Witness ==
    /\ codecStep = "decoded"
    /\ inserted.at = 1
    /\ inserted.type = 254
    /\ inserted.contents = LongData
    /\ Len(packet.frames) = 2
    /\ decoded.ok
    /\ Len(decoded.packet.frames) = 2

\* The type bytes of the frame catalog: 0x01..0x07 and 0x10..0x17.
CatalogTypes == (1..7) \cup (16..23)

\* C9: a frame of any type of the catalog, ConnectionAssetDetails (0x07) and
\* StreamReceipt (0x17) included, is decoded into a typed frame and not
\* skipped.
C9_CatalogFramesDecoded ==
    (codecStep = "decoded" /\ inserted.at >= 0
        /\ inserted.type \in CatalogTypes) =>
        /\ decoded.ok
        /\ Len(decoded.packet.frames) = Len(packet.frames) + 1
        /\ decoded.packet.frames[inserted.at + 1].type = inserted.type

\* C10: decrypting what encrypt returned, under the same shared secret, gives
\* back exactly the concatenation of the buffers, whatever iv encrypt drew.
C10_EncryptionRoundTrip ==
    cryptoStep = "opened" =>
        /\ opened.ok
        /\ opened.val = Concat(plainBuffers)

\* Two buffers, one of 130 bytes, came back joined, the secret given to
\* decrypt in another Buffer object than the one given to encrypt.
C10_Witness ==
    /\ cryptoStep = "opened"
    /\ cryptoApi = "memo"
    /\ DOMAIN pskKeyMap = SecretObjects
    /\ Len(plainBuffers) = 2
    /\ plainBuffers[1] = <<1, 2, 255>>
    /\ plainBuffers[2] = LongData
    /\ opened.ok
    /\ Len(opened.val) = 133
    /\ sealed # Concat(plainBuffers)

\* C11: decryptAndDeserialize given a blob that was opened with another secret
\* than it was encrypted under, or that had a byte of its iv, tag or ciphertext
\* changed, or that was cut to fewer than 28 bytes, throws: decrypt returns no
\* plaintext and no Packet comes back.
C11_DecryptAuthenticates ==
    (authStep = "opened" /\ authAltered # "none")
        => (~authOpened.ok /\ ~authPacket.ok)

\* C12: a buffer whose first byte is not 1 is refused by deserialization with
\* the version error and yields no Packet, whatever bytes follow; a buffer
\* whose first byte is 1 is never refused with the version error.
C12_VersionCheck ==
    (codecStep = "decoded" /\ wire # <<>>)
        => /\ wire[1] # VERSION
                => (~decoded.ok /\ decoded.error = UnsupportedVersion.error)
           /\ wire[1] = VERSION => decoded.error # UnsupportedVersion.error

\* A complete packet with frames whose version byte was replaced is refused.
C12_Witness ==
    /\ codecStep = "decoded"
    /\ packet.frames # <<>>
    /\ wire = <<2>> \o Tail(PacketWriteTo(packet))
    /\ ~decoded.ok
    /\ decoded.error = UnsupportedVersion.error

\* C13: the fulfillment the receiver computes from its secret and the data it
\* received hashes to the condition of the Prepare exactly when the receiver
\* holds the sender's secret and the data arrived byte for byte; computing it
\* again, from any Buffer object holding the secret, gives the same bytes.
C13_FulfillmentBinding ==
    fulfillStep = "fulfilled" =>
        \A i \in 1..Len(fulfillments) :
            /\ hash(fulfillments[i]) = fulfillCondition
                   <=> (fulfillOpenSecret = fulfillSecret
                        /\ fulfillReceived = fulfillData)
            /\ fulfillments[i] = fulfillments[1]

\* Same secret, one byte of the data changed, fulfillment computed twice.
C13_Witness ==
    /\ fulfillStep = "fulfilled"
    /\ Len(fulfillments) = 2
    /\ fulfillOpenSecret = fulfillSecret
    /\ Len(fulfillReceived) = Len(fulfillData)
    /\ fulfillReceived # fulfillData
    /\ hash(fulfillments[2]) # fulfillCondition

\* The chunks pushed so far, the byte positions a chunk covers, and whether
\* its bytes are those the sender wrote there.
PushedChunks ==
    {OffsetDataEntry(pushLog[i].data, pushLog[i].offset) : i \in 1..Len(pushLog)}
RangeOf(c) == (c.offset + 1)..(c.offset + Len(c.data))
Agrees(c) == c.data = SubSeq(original, c.offset + 1, c.offset + Len(c.data))

\* The chunks of S agree with what was written and their ranges split
\* [0, L) without overlap.
SplitsOriginal(S) ==
    /\ \A c \in S : Agrees(c)
    /\ \A c, d \in S : c # d => RangeOf(c) \cap RangeOf(d) = {}
    /\ UNION {RangeOf(c) : c \in S} = 1..Len(original)

BytesRead == Concat([i \in 1..Len(readLog) |-> readLog[i].data])

\* read() was called until it returned nothing and still has nothing.
ReadOut == lastRead = "undefined" /\ ~Readable(head, readOffset)

\* C14: when chunks that split [0, L) were pushed, each once, in any order,
\* and read() was called until it returned nothing, the chunks came back in
\* ascending offset order, every one of them, and their concatenation is the
\* L bytes written.
C14_Reassembly ==
    (SplitsOriginal(PushedChunks) /\ Cardinality(PushedChunks) = Len(pushLog)
     /\ ReadOut)
        => /\ BytesRead = original
           /\ Len(readLog) = Len(pushLog)
           /\ \A i \in 1..(Len(readLog) - 1) :
                  readLog[i].offset < readLog[i + 1].offset
           /\ head = <<>>

\* Three chunks pushed last first, all read back.
C14_Witness ==
    /\ SplitsOriginal(PushedChunks)
    /\ Len(pushLog) = 3
    /\ pushLog[1].offset > pushLog[2].offset
    /\ pushLog[2].offset > pushLog[3].offset
    /\ ReadOut
    /\ Len(readLog) = 3

\* C15: pushing a chunk again (same offset, same bytes), before or after its
\* first copy was read, changes nothing of what read() returns: when the
\* distinct chunks pushed split [0, L) and read() was called until it
\* returned nothing, every byte written was returned.
C15_DuplicateIdempotent ==
    (SplitsOriginal(PushedChunks) /\ ReadOut) => BytesRead = original

\* Two chunks that overlap and differ on a byte of the overlap.
Conflict(c, d) ==
    \E k \in RangeOf(c) \cap RangeOf(d) :
        c.data[k - c.offset] # d.data[k - d.offset]

\* C16: a push of a chunk that overlaps a chunk pushed earlier and differs
\* from it on an overlapping byte is refused with a ProtocolViolation.
C16_ConflictRefused ==
    \A j \in 1..Len(pushLog) :
        (\E i \in 1..(j - 1) : Conflict(pushLog[i], pushLog[j]))
            => pushLog[j].threw

\* C17: a receipt createReceipt returned verifies under the secret it was
\* created with and under no other 32-byte secret.
C17_VerifyCreated ==
    (receiptStep = "verified" /\ created.ok /\ presented = created.val
     /\ Len(verifySecret) = ReceiptSecretLength)
        => /\ ~verified.threw
           /\ verified.val <=> verifySecret = receiptOpts.secret

\* A receipt of stream 255 and the largest total, verified with another
\* 32-byte secret.
C17_Witness ==
    /\ receiptStep = "verified"
    /\ created.ok
    /\ presented = created.val
    /\ receiptOpts.streamId = 255
    /\ receiptOpts.totalReceived = MaxUInt
    /\ Len(verifySecret) = ReceiptSecretLength
    /\ verifySecret # receiptOpts.secret
    /\ ~verified.val

\* C18: verifyReceipt never throws; it returns false for a buffer that is not
\* 58 bytes long, whose first byte is not 1, or whose last 32 bytes are not
\* the HMAC of its first 26 under the secret given; a valid receipt with a
\* byte of its version, nonce, stream id or totalReceived changed is false
\* under every secret.
C18_VerifyRefuses ==
    receiptStep = "verified" =>
        /\ ~verified.threw
        /\ Len(presented) # ReceiptLength => ~verified.val
        /\ (presented # <<>> /\ presented[1] # RECEIPT_VERSION) => ~verified.val
        /\ (Len(presented) = ReceiptLength
            /\ SubSeq(presented, ReceiptMessageLength + 1, ReceiptLength)
               # hmac(verifySecret, SubSeq(presented, 1, ReceiptMessageLength)))
               => ~verified.val
        /\ (created.ok /\ Len(presented) = ReceiptLength
            /\ SubSeq(presented, 1, ReceiptMessageLength)
               # SubSeq(created.val, 1, ReceiptMessageLength))
               => ~verified.val

\* A valid receipt whose totalReceived had its last byte changed, verified
\* under the secret it was created with.
C18_Witness ==
    /\ receiptStep = "verified"
    /\ created.ok
    /\ Len(presented) = ReceiptLength
    /\ presented[ReceiptMessageLength] # created.val[ReceiptMessageLength]
    /\ verifySecret = receiptOpts.secret
    /\ ~verified.val

\* C19: createReceipt throws 'receipt nonce must be 16 bytes' when the nonce
\* is not 16 bytes long, otherwise 'receipt secret must be 32 bytes' when the
\* secret is not 32 bytes long, and returns no receipt then; otherwise it
\* returns 58 bytes.
C19_CreateChecksLengths ==
    receiptStep # "new" /\ receiptStep # "idle" =>
        /\ Len(receiptOpts.nonce) # NonceLength
               => (~created.ok /\ created.val = <<>>
                   /\ created.error = "receipt nonce must be 16 bytes")
        /\ (Len(receiptOpts.nonce) = NonceLength
            /\ Len(receiptOpts.secret) # ReceiptSecretLength)
               => (~created.ok /\ created.val = <<>>
                   /\ created.error = "receipt secret must be 32 bytes")
        /\ (Len(receiptOpts.nonce) = NonceLength
            /\ Len(receiptOpts.secret) = ReceiptSecretLength)
               => (created.ok /\ Len(created.val) = ReceiptLength)

\* Nonce and secret both of a wrong length: the nonce is the one reported.
C19_Witness ==
    /\ receiptStep = "created"
    /\ Len(receiptOpts.nonce) # NonceLength
    /\ Len(receiptOpts.secret) # ReceiptSecretLength
    /\ created.error = "receipt nonce must be 16 bytes"

\* C20: decodeReceipt of a receipt createReceipt returned gives version 1 and
\* the nonce, stream id and totalReceived given to createReceipt; of a buffer
\* that is not 58 bytes long it throws 'receipt must be 58 bytes'.
C20_DecodeInvertsCreate ==
    receiptStep = "decoded" =>
        /\ Len(presented) # ReceiptLength
               => (~decodedReceipt.ok /\ decodedReceipt.val = NoReceipt
                   /\ decodedReceipt.error = "receipt must be 58 bytes")
        /\ (created.ok /\ presented = created.val)
               => /\ decodedReceipt.ok
                  /\ decodedReceipt.val.version = 1
                  /\ decodedReceipt.val.nonce = receiptOpts.nonce
                  /\ decodedReceipt.val.streamId = ToDecimal(receiptOpts.streamId)
                  /\ decodedReceipt.val.totalReceived = receiptOpts.totalReceived

\* A receipt of stream 255 and total 500 decoded back.
C20_Witness ==
    /\ receiptStep = "decoded"
    /\ created.ok
    /\ presented = created.val
    /\ receiptOpts.streamId = 255
    /\ receiptOpts.totalReceived = 500
    /\ decodedReceipt.val.totalReceived = 500
    /\ decodedReceipt.val.streamId = <<50, 53, 53>>

\* The credential of the client whose Prepare was just handled.
ServedCredential == issued[served.credential]

\* C21: a Prepare addressed to a destinationAccount the server generated,
\* with or without a tag and with or without further segments after it,
\* yields the generated token (the '~' and the tag included) as connection
\* id, and the secret the server derives from it is the sharedSecret
\* generateAddressAndSecret returned.
C21_TokenRoundTrip ==
    (served.handled /\ served.credential > 0
        /\ served.alteration \in {"none", "segment"})
    => /\ served.connectionId = ServedCredential.token
       /\ served.sharedSecret # <<>>
            => served.sharedSecret = ServedCredential.sharedSecret

C21_Witness ==
    /\ served.handled
    /\ served.credential > 0
    /\ served.alteration = "segment"
    /\ Tilde \in {ServedCredential.token[i] :
                     i \in 1..Len(ServedCredential.token)}
    /\ served.created
    /\ served.connectionId = ServedCredential.token
    /\ served.sharedSecret = ServedCredential.sharedSecret

\* createConnection sends probe packets to the address it was given and
\* resolves once one comes back with the receiver's encrypted reply; when
\* none does it fails with this message.
ConnectError ==
    "Error connecting: Unable to establish connection, no packets meeting the minimum exchange precision of 3 digits made it through the path."
CreateConnection(replies) ==
    IF \E i \in 1..Len(replies) : replies[i].handled /\ replies[i].data # <<>>
    THEN [ok |-> TRUE, error |-> ""]
    ELSE [ok |-> FALSE, error |-> ConnectError]

\* C22: a Prepare sent to a generated address whose token or tag had
\* characters appended is rejected as unreachable with an empty message and
\* no data: no connection is created, no 'connection' event is emitted, and
\* the createConnection that sent it fails.
C22_AlteredTokenUnreachable ==
    (served.handled /\ served.alteration = "append")
    => /\ served.kind = "reject"
       /\ served.code = "F02"
       /\ served.message = ""
       /\ ~served.created
       /\ ~served.dispatched
       /\ Len(announced) = served.announcedBefore
       /\ ~CreateConnection(<<served>>).ok
       /\ CreateConnection(<<served>>).error = ConnectError

C22_Witness ==
    /\ served.handled
    /\ CreateConnection(<<served>>).error = ConnectError
    /\ served.alteration = "append"
    /\ served.credential > 0
    /\ served.connectionId = ServedCredential.token \o Appended
    /\ served.sharedSecret # <<>>
    /\ served.sharedSecret # ServedCredential.sharedSecret
    /\ served.code = "F02"

\* C23: a Prepare whose destination carries no token after the server's
\* address (the address alone, or the address and a dot) is answered with
\* an Unreachable Reject with an empty message; no connection is created
\* and no 'connection' event is emitted.
C23_NoTokenUnreachable ==
    (served.handled /\ served.alteration \in {"bare", "dot"})
    => /\ served.kind = "reject"
       /\ served.code = "F02"
       /\ served.message = ""
       /\ ~served.created
       /\ Len(announced) = served.announcedBefore

\* C24: generateAddressAndSecret called while the server is not connected,
\* before a listen() has completed or after close() has completed, fails
\* with 'Server must be connected to generate address and secret' and
\* returns no address and no secret.
C24_GenerateNeedsConnected ==
    (generated.called
        /\ (~generated.connected \/ generated.lifecycle \in {"new", "down"}))
    => /\ ~generated.result.ok
       /\ generated.result.error = NotConnectedError
       /\ generated.result.destinationAccount = <<>>
       /\ generated.result.sharedSecret = <<>>

C24_Witness ==
    /\ generated.called
    /\ generated.lifecycle = "down"
    /\ issued # <<>>
    /\ generated.result.error = NotConnectedError

\* A character the server does not take in a connection tag.
HasForeignCharacter(text) ==
    \E i \in 1..Len(text) :
        text[i] \notin (97..122) \cup (65..90) \cup (48..57) \cup {95, 45, 126}

\* C25: on a connected server, a non-empty connectionTag with a character
\* outside a-z, A-Z, 0-9, '_', '-', '~' makes generateAddressAndSecret fail
\* with the connectionTag message and return no address; a tag of those
\* characters only gives '<serverAccount>.<token>~<tag>'.
C25_ConnectionTagChecked ==
    (generated.called /\ generated.connected /\ generated.connectionTag # <<>>)
    => IF HasForeignCharacter(generated.connectionTag)
       THEN /\ ~generated.result.ok
            /\ generated.result.error = ConnectionTagError
            /\ generated.result.destinationAccount = <<>>
       ELSE /\ generated.result.ok
            /\ generated.result.destinationAccount =
                 generated.account \o <<Dot>> \o base64url(generated.random)
                 \o <<Tilde>> \o generated.connectionTag

C25_Witness ==
    /\ generated.called
    /\ generated.connected
    /\ generated.connectionTag = <<49, 10>>
    /\ generated.result.error = ConnectionTagError

\* C26: an acceptConnection() that is outstanding when close() is called,
\* whether it already waits for a connection or still awaits the listen()
\* it started, is eventually settled: rejected with 'server closed' unless
\* a connection arrived first.
C26_CloseRejectsPending ==
    \A a \in Accepts :
        accepts[a].closedDuring ~> accepts[a].pc \in {"resolved", "rejected"}

Settled(a) == accepts[a].pc \in {"resolved", "rejected"}

\* C27: an acceptConnection() promise settles at most once: it resolves
\* with the first connection announced after it started waiting, once it
\* has settled later connections and a later close leave its outcome as it
\* is, and none of its listeners remains registered.
C27_SettlesOnce ==
    /\ [](\A a \in Accepts :
            /\ Settled(a) => a \notin listeners.connection \cup listeners.close
            /\ accepts[a].pc = "resolved"
                 => accepts[a].result = accepts[a].waitFrom + 1
            /\ accepts[a].pc = "waiting"
                 => Len(announced) = accepts[a].waitFrom)
    /\ [][\A a \in Accepts :
             Settled(a) => /\ accepts'[a].pc = accepts[a].pc
                           /\ accepts'[a].result = accepts[a].result]_vars

\* An acceptConnection() resolved with the first connection; a second
\* connection and a close() followed.
C27_Witness ==
    /\ accepts[1].pc = "resolved"
    /\ accepts[1].result = 1
    /\ Len(announced) = 2
    /\ closePc = "resolved"

\* All of what close() did comes in this order: connections ended, then the
\* handler deregistered, then the plugin disconnected.
EndedFirst(trace) ==
    /\ Len(trace) >= 2
    /\ trace[Len(trace) - 1] = "deregister"
    /\ trace[Len(trace)] = "disconnect"
    /\ \A k \in 1..(Len(trace) - 2) : trace[k] = "end"

\* C28: when close() resolves, every connection the server announced has
\* ended, and ended once; the data handler is deregistered;
\* plugin.disconnect() was called once; the server is not connected; and the
\* connections were ended before the handler was deregistered and the plugin
\* disconnected.
C28_CloseEndsAll ==
    [][(closePc = "disconnecting" /\ closePc' = "resolved")
       => /\ \A i \in 1..Len(announced') : announced'[i].ends = 1
          /\ ~dataHandler'
          /\ disconnectCalls' = 1
          /\ ~serverConnected'
          /\ EndedFirst(closeTrace')]_vars

\* C29: a connection that ended is no longer among the active connections,
\* every later Prepare addressed to its token is rejected, and no new
\* 'connection' event is emitted for that token.
C29_ClosedNotReused ==
    /\ \A i \in 1..Len(announced) :
           /\ announced[i].ends > 0 => i \notin pool.active
           /\ ~announced[i].reuse
    /\ (served.handled /\ served.endedBefore) => served.kind = "reject"

\* The Prepare the send loop awaits.
Awaited == {p \in network : p.seq = awaiting /\ ~p.close}

\* After this step the connection sends no Prepare that carries money.
Fatal == connState' \in {"closeSent", "closed"}

\* C30: after a Reject of the Prepare awaited the holds are released, and
\* unless the code is temporary (T*) or F08 the money is not sent again:
\* the connection closes and no later Prepare carries money.
C30_RetryPolicy ==
    [][/\ \A p \in Awaited :
            /\ \A code \in NetworkRejectCodes :
                   NetworkReject(p, code)
                   => /\ holds' = ZeroPerStream
                      /\ code \notin {"T00", "F08"} => Fatal
            /\ (Deliver(p) /\ lastReply'.kind = "reject")
                   => /\ holds' = ZeroPerStream
                      /\ lastReply'.code \notin {"T00", "F08"} => Fatal
       /\ connState \in {"closeSent", "closed"}
            => \A q \in network' \ network : q.amount = 0]_vars

\* The floor portion of the frames of a Prepare that name stream s.
FloorShare(s, amount, frames) ==
    SumSeq([i \in 1..Len(frames) |->
               IF frames[i].streamId = s
               THEN (amount * frames[i].shares) \div TotalShares(frames)
               ELSE 0])

LowestNamed(frames) ==
    CHOOSE s \in NamedStreams(frames) : \A t \in NamedStreams(frames) : s <= t

\* C31: a fulfilled Prepare of amount A with StreamMoney frames credits each
\* stream the floor of A * shares / sum of shares, the lowest stream id gets
\* the whole remainder on top, and the credits of all streams add up to A.
C31_SharesConserve ==
    [][\A amount \in 0..MaxAmount, frames \in MoneyFrameLists :
          (/\ frames # <<>>
           /\ ReceivePrepare(amount, frames)
           /\ lastReply'.kind = "fulfill")
          => LET floors == SumOver([s \in Streams |->
                                       FloorShare(s, amount, frames)], Streams)
                 credit == [s \in Streams |->
                               totalReceived'[s] - totalReceived[s]]
             IN /\ \A s \in Streams :
                      credit[s] = FloorShare(s, amount, frames)
                                  + (IF s = LowestNamed(frames)
                                     THEN amount - floors ELSE 0)
                /\ SumOver(credit, Streams) = amount]_vars

\* A fulfilled Prepare named both streams and left stream 3 without money:
\* the amount 1 did not divide, and the remainder went to stream 1.
C31_Witness ==
    /\ lastReply.kind = "fulfill"
    /\ lastReply.named = Streams
    /\ totalReceived[1] = 1
    /\ totalReceived[3] = 0

\* C32: no Reject the data handler returns for data that it cannot decode,
\* cannot route or cannot decrypt carries a message or data.
C32_NoDetailInRejects ==
    (served.handled /\ served.kind = "reject" /\ ~served.dispatched)
    => /\ served.message = ""
       /\ served.data = <<>>

\* What may reach the data handler: data that is no Prepare, a stranger's
\* Prepare, and the Prepares of the clients, addressed as told or otherwise.
HandlerInputs ==
    {RawData(bytes) : bytes \in RawSamples}
    \cup {PrepareOf(0, alteration) : alteration \in {"bare", "dot"}}
    \cup {PrepareOf(credential, alteration) :
             credential \in 1..Len(issued), alteration \in Alterations}

\* A reply of the handler: a Fulfill, or a Reject with an ILP error code,
\* which is F00 when the error answered carried none.
IsAnswer(a) ==
    /\ a.handled
    /\ a.kind \in {"reject", "passed"}
    /\ (a.kind = "reject" /\ a.errorCode = "") => a.code = "F00"
    /\ a.kind = "reject" => a.code \in {"F00", "F02", "F06", "F99"}

\* C33: in every state of the server, the window between the registration
\* of the handler and the first pool and the time after close() included,
\* handleData answers every input with a Fulfill or a Reject and throws
\* nothing: the call answers at once or asks the pool, what the pool
\* settles with and what the connection settles with are answered, and an
\* error without an ILP error code is answered with F00.
C33_HandlerTotal ==
    /\ \A p \in HandlerInputs :
           Answer(p).kind = "asked" \/ IsAnswer(Answer(p))
    /\ handling.kind = "asked"
           => PoolSettled(handling).kind \in {"found", "refused"}
    /\ handling.kind \in {"found", "refused"}
           => \/ Connected(handling).kind = "dispatched"
              \/ IsAnswer(Connected(handling))
    /\ handling.kind = "dispatched"
           => \A outcome \in HandlePrepareOutcomes(handling) :
                  IsAnswer(Replied(handling, outcome))
    /\ handling.kind \in {"none", "asked", "found", "refused", "dispatched"}
    /\ served.handled => IsAnswer(served)

\* A Prepare was handed to its connection, close() completed, and the error
\* without ILP code that the connection then threw was answered with F00.
C33_Witness ==
    /\ served.handled
    /\ served.dispatched
    /\ served.kind = "reject"
    /\ served.errorCode = ""
    /\ served.code = "F00"
    /\ closePc = "resolved"

\* C34: a listen() that is called while the handler is registered does not
\* register it again, and while the server was never closed the pool it has
\* is not replaced by another.
C34_ListenIdempotent ==
    [][/\ \A c \in Callers :
            (listening[c] # "connecting" /\ listening'[c] = "connecting")
            => ~dataHandler
       /\ (pool.made > 0 /\ closePc = "none") => pool'.made = pool.made]_vars

\* C35: whatever calls came before, generateSharedSecretFromToken returns
\* HMAC(HMAC(seed, 'ilp_stream_shared_secret'), token) for the seed and the
\* token of the call, and the fulfillment and the encryption key are
\* derived from the shared secret of the call.
C35_MemoAgrees ==
    /\ derivation.fn = "sharedSecret"
       => derivation.val = GenerateSharedSecretFromToken(derivation.key,
                                                      derivation.input)
    /\ derivation.fn = "fulfillment"
       => derivation.val = FulfillmentOf(GenerateFulfillmentKey(derivation.key),
                                      derivation.input)
    /\ derivation.fn = "encryptionKey"
       => derivation.val = GeneratePskEncryptionKey(derivation.key)

\* C36: with padPacketToSize t and a serialized packet of s bytes,
\* serializeAndEncrypt returns t bytes when s + 28 <= t and s + 28 bytes
\* otherwise, never more than the larger of t and s + 28.
C36_PaddingSize ==
    (authStep \in {"sealed", "opened"} /\ padding.defined)
    => /\ ByteLength(packet) <= padding.size
          => Len(authSent) = padding.size
       /\ ByteLength(packet) > padding.size
          => Len(authSent) = ByteLength(packet)
       /\ Len(authSent) <= Max(padding.size, ByteLength(packet))

\* C37: decryptAndDeserialize of what serializeAndEncrypt returned, with
\* any padPacketToSize, gives the sequence, type, prepareAmount and frames
\* of the packet, as without padding; nothing of the padding is a frame.
C37_PaddingTransparent ==
    authStep = "opened"
    => /\ authPacket.ok
       /\ authPacket = DeserializeUnencrypted(PacketWriteTo(packet))
       /\ authPacket.packet.sequence = packet.sequence
       /\ authPacket.packet.ilpPacketType = packet.ilpPacketType
       /\ authPacket.packet.prepareAmount = packet.prepareAmount
       /\ Len(authPacket.packet.frames) = Len(packet.frames)
       /\ authPacket.packet.frames = packet.frames

\* A Fulfill with two frames, padded with more than a block of zeros, came
\* back with its two frames.
C37_Witness ==
    /\ authStep = "opened"
    /\ padding.defined
    /\ Len(authSent) > ByteLength(packet) + 32
    /\ Len(packet.frames) = 2
    /\ authPacket.ok
    /\ authPacket.packet.frames = packet.frames

\* C38: byteLength() is the total length of the chunks pushed and not yet
\* returned by read(), contiguous with readOffset or not.
C38_ByteLengthQueued ==
    QueuedByteLength(head)
        = SumSeq([i \in 1..Len(pushLog) |-> Len(pushLog[i].data)])
          - SumSeq([i \in 1..Len(readLog) |-> Len(readLog[i].data)])

\* After a read, a chunk of two bytes waits behind a chunk that does not
\* start at readOffset.
C38_Witness ==
    /\ Len(readLog) = 1
    /\ Len(head) = 2
    /\ Head(head).offset # readOffset
    /\ Len(head[2].data) = 2
    /\ QueuedByteLength(head) = 3

\* The lowest offset of the queued chunks.
MinOffset(list) ==
    CHOOSE m \in {list[i].offset : i \in 1..Len(list)} :
        \A i \in 1..Len(list) : m <= list[i].offset

\* The list without its entry i.
Without(list, i) ==
    [j \in 1..(Len(list) - 1) |-> IF j < i THEN list[j] ELSE list[j + 1]]

\* C39: read() returns a chunk exactly when the queued chunk of the lowest
\* offset starts at readOffset; it then removes that chunk and advances
\* readOffset by its length; otherwise it returns nothing and changes
\* neither readOffset, maxOffset, endOffset nor the queue. readOffset never
\* decreases and never exceeds maxOffset.
C39_ReadContract ==
    /\ [](readOffset <= maxOffset)
    /\ [][/\ readOffset' >= readOffset
          /\ Read =>
               IF head # <<>> /\ MinOffset(head) = readOffset
               THEN /\ lastRead' = "data"
                    /\ Len(readLog') = Len(readLog) + 1
                    /\ readLog'[Len(readLog')].offset = readOffset
                    /\ readOffset'
                         = readOffset + Len(readLog'[Len(readLog')].data)
                    /\ \E i \in 1..Len(head) :
                          /\ head[i] = readLog'[Len(readLog')]
                          /\ head' = Without(head, i)
               ELSE /\ lastRead' = "undefined"
                    /\ UNCHANGED <<readOffset, maxOffset, endOffset, head,
                                   readLog>>]_vars

\* read() returned a chunk, then nothing: the chunk that waits starts
\* beyond readOffset.
C39_Witness ==
    /\ lastRead = "undefined"
    /\ Len(readLog) = 1
    /\ head # <<>>
    /\ readOffset > 0
    /\ MinOffset(head) > readOffset
    /\ endOffset = MaxLength

\* C40: when a queued chunk starts at readOffset the next read() returns
\* data: no chunk that lies behind readOffset stands in its way.
C40_NeverStuck ==
    (\E i \in 1..Len(head) : head[i].offset = readOffset)
    => Readable(head, readOffset)

====
